---- MODULE Spec2Model ----
(***************************************************************************)
(* Vireo: the per-tick protocol of the simulation drivers.                 *)
(*                                                                         *)
(*   headless     crates/vireo-headless/src/main.rs   (batch loop)   Spec  *)
(*   viewer       crates/vireo-app/src/viewer.rs      (interactive)  Spec  *)
(*   legacy       src/main.rs (Gfx)                            SpecLegacy  *)
(*   stores       crates/vireo-core/src/sim (FieldManager,     SpecStores  *)
(*                AgentManager called directly)                            *)
(*                                                                         *)
(* Both drive the field ping-pong of crates/vireo-core/src/gpu/textures.rs *)
(* (two grids A and B, one parity bit), one occupancy buffer and one agent *)
(* buffer.  A grid's contents are modelled by their provenance (who wrote  *)
(* them last, in which tick), the occupancy buffer by the set of ticks     *)
(* whose agent pass deposited into it since it was last zeroed.            *)
(***************************************************************************)
EXTENDS Integers, Sequences, FiniteSets

\* ---- bounds of the model ------------------------------------------------
MaxSteps == 3
MaxTicks == 3
MaxHerbivores == 2
ManyHerbivores == 65
MaxSize == 64
MaxDt == 1
GridW == 3
GridH == 3
MaxSeed == 1
MaxCell == 1
MaxCalls == 3
MaxAgentCalls == 5
MaxAgents == 9
MaxWrites == 205
MaxLongSteps == 2000
MaxSpanSize == 40

\* ---- program constants --------------------------------------------------
AGENT_WORKGROUP == 128
METRICS_EVERY == 50
DEBUG_EVERY == 100
DEFAULT_E0 == 1
\* scenario overrides, in thousandths
SIGMA_R_HIGH == 20
D_R_HIGH == 1000
ALPHA_H_HIGH == 200
GAMMA_HIGH == 200
\* seed_resources: warning limit, span percentages, amplitude ranges and TAU
\* in hundredths
COARSE_MIN_DIM == 32
CLUSTER_LO_PCT == 15
CLUSTER_HI_PCT == 85
SOURCE_LO_PCT == 5
SOURCE_HI_PCT == 95
CLUSTER_AMP_LO == 30
CLUSTER_AMP_HI == 70
SOURCE_AMP_LO == 20
SOURCE_AMP_HI == 50
TAU == 628
MILESTONE_1 == 200
MILESTONE_2 == 1000
MILESTONE_3 == 2000
MIN_WORLD_SIZE == 32
CORE_H_SCALE == 125
BINDINGS_H_SCALE == 125
F32_EXACT == 16777216
PLANT_MARGIN == 20
HERBIVORE_MARGIN == 10
PREDATOR_MARGIN == 30
AMP_CENTER == 8
NUM_CLUSTERS == 4
NUM_SOURCES == 8

HISTORY_CAP == 200
CYCLE_MIN_SAMPLES == 50
CYCLE_WINDOW == 20
CYCLE_NORM == 100

\* thousandths: the unit the f32 statistics are carried in
Milli == 1000

VARIABLES
    driver,        \* which binary runs: "headless" or "viewer"
    steps,         \* config.world.steps
    herbivores,    \* config.agents.herbivores
    pc,            \* position of the driver in its loop / handler
    step,          \* headless: loop variable of `for step in 0..=steps`
    current_step,  \* viewer: Viewer.current_step
    use_a_as_src,  \* headless: local parity flag
    front_is_a,    \* FieldPingPong.front_is_a
    tex,           \* contents of grid A and grid B
    occupancy,     \* ticks whose deposits the occupancy buffer holds
    gpu_alive,     \* alive flags set in the GPU agent buffer
    cpu_alive,     \* alive flags set in AgentManager.agents (host copy)
    ops,           \* operations issued so far in the current tick
    n_ticks,       \* ticks run to their end
    n_agent,       \* agent passes submitted
    n_rd,          \* reaction-diffusion passes submitted
    n_swap,        \* parity flips performed
    agent_src,     \* grid sampled by the latest agent pass
    rd_src,        \* grid read by the latest reaction-diffusion pass
    rd_dst,        \* grid written by the latest reaction-diffusion pass
    rd_src_tex,    \* contents of rd_src when that pass read it
    rd_occ,        \* occupancy read by the latest reaction-diffusion pass
    dl_src,        \* grid copied by the latest download
    dl_front,      \* grid that was front when that download was made
    extinct,       \* headless: the loop was left through the extinction check
    width,         \* config.world.size[0]
    height,        \* config.world.size[1]
    dt,            \* config.world.dt
    scenario,      \* headless: --debug-scenario / --scenario on the command line
    setup,         \* start-up steps performed so far, in order
    rd_params_buffer,     \* RDParams record in the GPU uniform buffer
    agent_params_buffer,  \* AgentParams record in the GPU uniform buffer
    emissions_enabled,    \* legacy: params.emissions_enabled
    ul_dst,        \* grid written by the latest field upload
    ul_front,      \* grid that was front when that upload was made
    ul_tick,       \* ticks completed when that upload was made
    em_dst,        \* legacy: grid written by the latest emissions pass
    em_front,      \* legacy: grid that was front when that pass was encoded
    data,          \* FieldManager.data
    agents,        \* AgentManager.agents
    seed_args,     \* arguments of the latest seed_resources / AgentManager::new
                   \* and the grid the latest seed_resources found
    n_calls,       \* calls made on the stores so far
    failure,       \* worst failure of a step so far: "none", "warning", "fatal"
    stats,         \* AgentManager.stats
    alive_ret,     \* value returned by the latest get_alive_count, -1 before
    field_stats,   \* FieldManager.stats
    agent_call,    \* the latest call on the AgentManager and the array it found
    field_call,    \* name of the latest call on the FieldManager
    herbivore_history,  \* MetricsWriter.herbivore_history
    energy_history,     \* MetricsWriter.energy_history
    cycle_score,   \* cycle score of the latest metrics row, in thousandths
    n_writes,      \* write_step calls made so far
    step_count,    \* MetricsWriter.step_count
    samples,       \* (alive_count, mean_energy) of every write_step call, in order
    metric_rows,   \* headless: steps of the metrics rows written, in order
    field_images,  \* headless: steps whose field image was written
    agent_tables,  \* headless: steps whose agent table was written
    download_ticks, \* headless: steps at which something was read back
    show_r_field,   \* viewer: Viewer.show_r_field
    show_w_field,   \* viewer: Viewer.show_w_field
    show_occupancy, \* viewer: Viewer.show_occupancy
    show_gradients, \* viewer: Viewer.show_gradients
    scenario_mode,  \* viewer: Viewer.scenario_mode, "none" for None
    rd_params,      \* headless: the RDParams record as the mapper produced it
    agent_params,   \* headless: the AgentParams record as the mapper produced it
    sample_spans,   \* intervals the latest seed_resources handed to gen_range
    half_data       \* the texels the latest from_rgba16f was handed

cfgv == <<driver, steps, herbivores, width, height, dt, scenario>>
parv == <<rd_params_buffer, agent_params_buffer>>
legv == <<emissions_enabled, ul_dst, ul_front, ul_tick, em_dst, em_front>>
seedv == <<data, agents, seed_args, n_calls>>
agstatv == <<stats, alive_ret, agent_call>>
fldstatv == <<field_stats, field_call>>
statv == <<agstatv, fldstatv>>
metv == <<herbivore_history, energy_history, cycle_score, n_writes, step_count,
         samples>>
logv == <<metric_rows, field_images, agent_tables, download_ticks>>
newv == <<statv, metv, logv>>
viewv == <<show_r_field, show_w_field, show_occupancy, show_gradients,
           scenario_mode>>
mapv == <<rd_params, agent_params>>
extv == <<viewv, mapv, sample_spans, half_data>>
auxv == <<legv, extv, seedv, failure, newv>>
hostv == <<pc, step, current_step, use_a_as_src, front_is_a, cpu_alive>>
gpuv == <<tex, occupancy, gpu_alive>>
countv == <<n_ticks, n_agent, n_rd, n_swap>>
obsv == <<agent_src, rd_src, rd_dst, rd_src_tex, rd_occ, dl_src, dl_front>>
vars == <<cfgv, hostv, gpuv, countv, obsv, ops, extinct, setup, parv, auxv>>

\* ---- grids and their contents -------------------------------------------
Grids == {"A", "B"}

Other(g) == IF g = "A" THEN "B" ELSE "A"

Undefined == [writer |-> "none", tick |-> 0]

Seeded == [writer |-> "upload", tick |-> 0]

\* a field uploaded after t completed ticks (Seeded is Uploaded(0))
Uploaded(t) == [writer |-> "upload", tick |-> t]

\* the output of the reaction-diffusion pass of tick t plus the emissions of t
EmOut(t) == [writer |-> "emissions", tick |-> t]

RdOut(t) == [writer |-> "rd", tick |-> t]

Min(a, b) == IF a < b THEN a ELSE b

\* a / b on f32, in thousandths
Ratio(a, b) == (a * Milli) \div b

\* ---- FieldPingPong (textures.rs) ----------------------------------------
\* new(): both textures freshly allocated, front_is_a: true
NewTextures == [g \in Grids |-> Undefined]

\* upload_field_data(): queue.write_texture into tex_a
upload_field_data(t) == [t EXCEPT !["A"] = Seeded]

\* rd_bind_group(): rd_a2b_bg (src A, dst B) when front_is_a, else rd_b2a_bg
rd_bind_group(f) == IF f THEN [src |-> "A", dst |-> "B"] ELSE [src |-> "B", dst |-> "A"]

\* render_bind_group(): show_a_bg (grid A) when front_is_a, else show_b_bg
render_bind_group(f) == IF f THEN "A" ELSE "B"

\* front_sample_view(): view_a_sample when front_is_a, else view_b_sample
front_sample_view(f) == IF f THEN "A" ELSE "B"

\* swap(): front_is_a = !front_is_a
swap(f) == ~f

\* download_field_data(): copies tex_a when front_is_a, else tex_b
download_field_data(f) == IF f THEN "A" ELSE "B"

\* a recreate that rebuilds the pair as new() does
recreate_as_new(t, f) == [tex |-> [g \in Grids |-> Undefined], front_is_a |-> TRUE]

\* a recreate that also exchanges the roles of the two grids
recreate_flipped(t, f) == [tex |-> [g \in Grids |-> Undefined], front_is_a |-> ~f]

\* recreate(): both textures reallocated, front_is_a and size kept
recreate(t, f) == [tex |-> [g \in Grids |-> Undefined], front_is_a |-> f]

\* ---- AgentManager (agents.rs) -------------------------------------------
\* new(): total_agents = herbivore_count * 3, every agent created alive
TotalAgents(h) == h * 3

\* new(): plant_count = total / 6, predator_count = total / 6, the rest herbivores
PlantCount(h) == TotalAgents(h) \div 6

PredatorCount(h) == TotalAgents(h) \div 6

ActualHerbivoreCount(h) == TotalAgents(h) - PlantCount(h) - PredatorCount(h)

\* rng.gen_range(margin..(extent - margin)) panics on an empty range
EmptyRange(margin, extent) == margin >= extent - margin

\* new() panics when a kind that is spawned has no room between its margins
SpawnPanics(h, w, ht) ==
    \/ PlantCount(h) > 0
          /\ (EmptyRange(PLANT_MARGIN, w) \/ EmptyRange(PLANT_MARGIN, ht))
    \/ ActualHerbivoreCount(h) > 0
          /\ (EmptyRange(HERBIVORE_MARGIN, w) \/ EmptyRange(HERBIVORE_MARGIN, ht))
    \/ PredatorCount(h) > 0
          /\ (EmptyRange(PREDATOR_MARGIN, w) \/ EmptyRange(PREDATOR_MARGIN, ht))

\* get_alive_count() == 0 on the host copy
HostExtinct == cpu_alive = 0

\* ---- configuration (SimulationConfig, Cli) ------------------------------
\* world sizes around the accepted minimum, and one with room for every kind
Sizes == {MIN_WORLD_SIZE - 1, MIN_WORLD_SIZE, MaxSize}

\* time steps: negative, zero, positive
DtValues == (0 - 1)..MaxDt

\* herbivore counts: a few, and one herd whose agents exceed a workgroup
HerbivoreCounts == (0..MaxHerbivores) \cup {ManyHerbivores}

\* no flag, --debug-scenario alone, or --scenario <name>
Scenarios == {"none", "debug", "reaction-only", "diffusion-only",
              "uptake-only", "damping-only"}

Config == [size |-> <<width, height>>, dt |-> dt]

\* the three bail! checks at the top of the headless main
ConfigInvalid_no_dt(w, h, n, d) == w < MIN_WORLD_SIZE \/ h < MIN_WORLD_SIZE \/ n = 0

ConfigInvalid(w, h, n, d) ==
    w < MIN_WORLD_SIZE \/ h < MIN_WORLD_SIZE \/ n = 0 \/ d <= 0

\* ---- parameter mappers --------------------------------------------------
\* `n as f32`: exact up to 2^24, above it the nearest even neighbour
ToF32(n) ==
    IF n <= F32_EXACT \/ n % 2 = 0 THEN n
    ELSE IF ((n - 1) \div 2) % 2 = 0 THEN n - 1 ELSE n + 1

\* a uniform buffer that was not created yet
NoParams == [size |-> <<0, 0>>, dt |-> 0, H_SCALE |-> 0, coeffs |-> "none"]

\* vireo-core sim/params.rs: From<&SimulationConfig> for RDParams, H_SCALE 0.125
core_RDParams_from_stale(c) ==
    [size |-> c.size, dt |-> c.dt, H_SCALE |-> CORE_H_SCALE + CORE_H_SCALE,
     coeffs |-> "config"]

core_RDParams_from(c) ==
    [size |-> c.size, dt |-> c.dt, H_SCALE |-> CORE_H_SCALE, coeffs |-> "config"]

\* vireo-core sim/params.rs: From<&SimulationConfig> for AgentParams
core_AgentParams_from(c) ==
    [size |-> <<ToF32(c.size[1]), ToF32(c.size[2])>>, dt |-> c.dt,
     coeffs |-> "config"]

\* vireo-params lib.rs: From<&SimulationConfig> for RDParams, bindings::H_SCALE
params_RDParams_from(c) ==
    [size |-> c.size, dt |-> c.dt, H_SCALE |-> BINDINGS_H_SCALE,
     coeffs |-> "config"]

\* vireo-params lib.rs: From<&SimulationConfig> for AgentParams
params_AgentParams_from(c) ==
    [size |-> <<ToF32(c.size[1]), ToF32(c.size[2])>>, dt |-> c.dt,
     coeffs |-> "config"]

\* vireo-params bindings::validate_rd_params: Ok iff H_SCALE is the constant
validate_rd_params(p) == p.H_SCALE = BINDINGS_H_SCALE

\* vireo-params bindings::validate_agent_params: Ok iff size is expected_size
validate_agent_params(p, expected_size) ==
    p.size = <<ToF32(expected_size[1]), ToF32(expected_size[2])>>

\* headless: debug_rd_params, the mapped record with the scenario's overrides
debug_rd_params_plain(sc, p) == p

debug_rd_params(sc, p) ==
    CASE sc \in {"reaction-only", "debug"} -> [p EXCEPT !.coeffs = "reaction-only"]
      [] sc = "diffusion-only" -> [p EXCEPT !.coeffs = "diffusion-only"]
      [] sc = "uptake-only" -> [p EXCEPT !.coeffs = "uptake-only"]
      [] OTHER -> p

\* headless: debug_agent_params
debug_agent_params(sc, p) ==
    IF sc \in {"damping-only", "debug"} THEN [p EXCEPT !.coeffs = "damping-only"]
    ELSE p

\* start-up steps of Viewer::new, in order
ViewerNewSteps == <<"seed", "map_params", "buffers", "textures", "upload">>

\* start-up steps of the headless main after GPU initialisation, in order
HeadlessSetupSteps == <<"seed", "textures", "upload", "map_params", "buffers">>

\* ---- kernels -------------------------------------------------------------
\* workgroups dispatched for the agent kernel, and the agents they cover
AgentWorkgroups(h) == (h + (AGENT_WORKGROUP - 1)) \div AGENT_WORKGROUP

AgentsCovered(h) == Min(TotalAgents(h), AgentWorkgroups(h) * AGENT_WORKGROUP)

\* alive counts the agent kernel may leave: a covered agent may die, a dead
\* agent stays dead, an agent outside the dispatch is never touched
AgentKernelAlive(h, alive) ==
    { a \in 0..alive : a >= TotalAgents(h) - AgentsCovered(h) }

\* the agent kernel adds this tick's deposits to the occupancy buffer
AgentKernelDeposit(occ, t) == occ \cup {t}

\* the clear kernel writes 0 to every occupancy cell
ClearKernel(occ) == {}

\* the reaction-diffusion kernel writes the destination grid
RdKernel(t, bg, tick) == [t EXCEPT ![bg.dst] = RdOut(tick)]

\* ---- the drivers' view of the front grid --------------------------------
Front == IF driver \in {"headless", "legacy"}
           THEN (IF use_a_as_src THEN "A" ELSE "B")
                                ELSE (IF front_is_a THEN "A" ELSE "B")

Tick == IF driver = "headless" THEN step ELSE current_step

IsMilestone(s) == s = 0 \/ s = MILESTONE_1 \/ s = MILESTONE_2 \/ s = MILESTONE_3

Abs(n) == IF n < 0 THEN 0 - n ELSE n

\* initial_energy * 1.5 for plants, * 1.2 for predators, in tenths
SpawnEnergy(k, e) == IF k = 0 THEN e * 15 ELSE IF k = 1 THEN e * 10 ELSE e * 12

\* agent_manager.stats.mean_energy of the host copy spawned with
\* config.agents.E0 at its default, in thousandths of a tenth
HostMeanEnergy(h) ==
    IF TotalAgents(h) = 0 THEN 0
    ELSE Ratio(PlantCount(h) * SpawnEnergy(0, DEFAULT_E0)
               + ActualHerbivoreCount(h) * SpawnEnergy(1, DEFAULT_E0)
               + PredatorCount(h) * SpawnEnergy(2, DEFAULT_E0), TotalAgents(h))

\* a write_step that counts the call before it writes the row
step_count_after_counting_first(count, ok) == count + 1

\* write_step: write_record(..)?; flush()?; self.step_count += 1
step_count_after(count, ok) == IF ok THEN count + 1 ELSE count

\* write_step without its trimming
push_history_unbounded(h, v) == Append(h, v)

\* write_step: history.push(v); if history.len() > 200 { history.remove(0) }
push_history(h, v) ==
    LET h1 == Append(h, v)
    IN IF Len(h1) > HISTORY_CAP THEN Tail(h1) ELSE h1

RECURSIVE LagSum(_, _)
\* the loop `for lag in 1..=window`: sum of |current - lagged| over the lags
\* below history.len()
LagSum(h, lag) ==
    IF lag = 0 THEN 0
    ELSE LagSum(h, lag - 1)
         + (IF lag < Len(h) THEN Abs(h[Len(h)] - h[Len(h) - lag]) ELSE 0)

\* a cycle score that is not clipped
compute_cycle_score_unclipped(h) ==
    IF Len(h) < CYCLE_MIN_SAMPLES THEN 0
    ELSE LET window_size == Min(CYCLE_WINDOW, Len(h) \div 2)
             count == Min(window_size, Len(h) - 1)
         IN IF count > 0
              THEN (LagSum(h, window_size) * Milli) \div (count * CYCLE_NORM)
              ELSE 0

\* MetricsWriter::compute_cycle_score on herbivore_history, in thousandths:
\* (autocorr_sum / count / 100.0).min(1.0)
compute_cycle_score(h) ==
    IF Len(h) < CYCLE_MIN_SAMPLES THEN 0
    ELSE LET window_size == Min(CYCLE_WINDOW, Len(h) \div 2)
             count == Min(window_size, Len(h) - 1)
         IN IF count > 0
              THEN Min(Milli, (LagSum(h, window_size) * Milli) \div (count * CYCLE_NORM))
              ELSE 0

\* a metrics cadence counted from one
MetricsDue_from_one(s) == (s + 1) % METRICS_EVERY = 0

\* step % 50 == 0
MetricsDue(s) == s % METRICS_EVERY = 0

\* cli.debug_scenario && step % 100 == 0
DebugDue(s) == scenario = "debug" /\ s % DEBUG_EVERY = 0

\* the legacy driver's own state, while another driver runs
LegacyIdle ==
    /\ emissions_enabled = FALSE
    /\ em_dst = "-"
    /\ em_front = "-"

\* no seed_resources and no AgentManager::new call recorded
NoSeedArgs == [field_seed |-> 0 - 1, before |-> <<>>,
               agent_count |-> 0 - 1, agent_seed |-> 0 - 1, agent_world |-> <<>>]

\* the CPU-side stores, as long as nothing calls them directly
StoresIdle ==
    /\ data = <<>>
    /\ agents = <<>>
    /\ seed_args = NoSeedArgs
    /\ n_calls = 0

\* a call on the AgentManager: its name, the array and the statistics it
\* found, the agent it addressed, the world size and the seed it was given
AgentCall(op, before, index, world, seed) ==
    [op |-> op, before |-> before, stats_before |-> stats, index |-> index,
     world |-> world, seed |-> seed]

\* AgentStats::default()
AgentStats_default ==
    [alive_count |-> 0, total_energy |-> 0, mean_energy |-> 0,
     mean_velocity |-> 0, foraging_efficiency |-> 0]

\* FieldStats::default()
FieldStats_default ==
    [mean_R |-> 0, mean_W |-> 0, var_R |-> 0, var_W |-> 0, mean_grad_R |-> 0,
     max_R |-> 0, max_W |-> 0, min_R |-> 0, min_W |-> 0]

\* the statistics of both managers right after their construction
StatsIdle ==
    /\ stats = AgentStats_default
    /\ alive_ret = 0 - 1
    /\ field_stats = FieldStats_default
    /\ agent_call = AgentCall("none", <<>>, 0, <<>>, 0 - 1)
    /\ field_call = "none"

\* MetricsWriter::new: empty histories, nothing written
MetricsIdle ==
    /\ herbivore_history = <<>>
    /\ energy_history = <<>>
    /\ cycle_score = 0
    /\ n_writes = 0
    /\ step_count = 0
    /\ samples = <<>>

\* Viewer::new: show_r_field: true, the other overlays off, scenario_mode: None;
\* without a viewer every overlay is off
ViewIdle ==
    /\ show_r_field = (driver = "viewer")
    /\ show_w_field = FALSE
    /\ show_occupancy = FALSE
    /\ show_gradients = FALSE
    /\ scenario_mode = "none"

\* no parameter record mapped, nothing sampled or read back yet
MappedIdle ==
    /\ rd_params = NoParams
    /\ agent_params = NoParams
    /\ sample_spans = <<>>
    /\ half_data = <<>>

\* no metrics row, no snapshot and no read-back so far
LogsIdle ==
    /\ metric_rows = <<>>
    /\ field_images = {}
    /\ agent_tables = {}
    /\ download_ticks = {}

\* ---- initial state: process start (headless) / after Viewer::new ----------
Init ==
    /\ driver \in {"headless", "viewer"}
    /\ steps \in IF driver = "headless" THEN 0..MaxSteps ELSE {MaxSteps}
    /\ herbivores \in HerbivoreCounts
    /\ width \in Sizes
    /\ height \in Sizes
    /\ driver = "viewer" => ~SpawnPanics(herbivores, width, height)
    /\ dt \in DtValues
    /\ scenario \in IF driver = "headless" THEN Scenarios ELSE {"none"}
    /\ pc = IF driver = "headless" THEN "validate" ELSE "idle"
    /\ setup = IF driver = "headless" THEN <<>> ELSE ViewerNewSteps
    /\ rd_params_buffer =
         IF driver = "headless" THEN NoParams ELSE params_RDParams_from(Config)
    /\ agent_params_buffer =
         IF driver = "headless" THEN NoParams ELSE params_AgentParams_from(Config)
    /\ step = 0
    /\ current_step = 0
    /\ use_a_as_src = TRUE
    /\ front_is_a = TRUE
    /\ tex = IF driver = "headless" THEN NewTextures
                                    ELSE upload_field_data(NewTextures)
    /\ occupancy = {}
    /\ gpu_alive = IF driver = "headless" THEN 0 ELSE TotalAgents(herbivores)
    /\ cpu_alive = IF driver = "headless" THEN 0 ELSE TotalAgents(herbivores)
    /\ ops = <<>>
    /\ n_ticks = 0
    /\ n_agent = 0
    /\ n_rd = 0
    /\ n_swap = 0
    /\ agent_src = "-"
    /\ rd_src = "-"
    /\ rd_dst = "-"
    /\ rd_src_tex = Undefined
    /\ rd_occ = {}
    /\ dl_src = "-"
    /\ dl_front = "-"
    /\ extinct = FALSE
    /\ ul_dst = IF driver = "headless" THEN "-" ELSE "A"
    /\ ul_front = IF driver = "headless" THEN "-" ELSE "A"
    /\ ul_tick = 0
    /\ LegacyIdle
    /\ StoresIdle
    /\ failure = "none"
    /\ StatsIdle
    /\ MetricsIdle
    /\ LogsIdle
    /\ ViewIdle
    /\ MappedIdle

\* ======================= headless driver ================================
\* the configuration checks: bail! on a small world, steps == 0 or dt <= 0
HeadlessValidate ==
    /\ driver = "headless"
    /\ pc = "validate"
    /\ pc' = IF ConfigInvalid(width, height, steps, dt) THEN "config_error"
                                                         ELSE "create_dir"
    /\ setup' = Append(setup, "validate_config")
    /\ UNCHANGED <<cfgv, parv, auxv, step, current_step, use_a_as_src, front_is_a,
                   cpu_alive, gpuv, countv, obsv, ops, extinct>>

\* std::fs::create_dir_all(&cli.out)?
HeadlessCreateDir ==
    /\ driver = "headless"
    /\ pc = "create_dir"
    /\ \E ok \in BOOLEAN :
         IF ok THEN pc' = "init_gpu" /\ setup' = Append(setup, "create_dir")
               ELSE pc' = "error" /\ setup' = setup
    /\ UNCHANGED <<cfgv, parv, auxv, step, current_step, use_a_as_src, front_is_a,
                   cpu_alive, gpuv, countv, obsv, ops, extinct>>

\* pollster::block_on(GpuDevice::new())
HeadlessInitGpu ==
    /\ driver = "headless"
    /\ pc = "init_gpu"
    /\ \E ok \in BOOLEAN :
         IF ok THEN pc' = "setup" /\ setup' = Append(setup, "init_gpu")
               ELSE pc' = "error" /\ setup' = setup
    /\ UNCHANGED <<cfgv, parv, auxv, step, current_step, use_a_as_src, front_is_a,
                   cpu_alive, gpuv, countv, obsv, ops, extinct>>

\* managers, seed_resources, FieldTextures::new, upload_field_data, the two
\* parameter records and their debug copies, the GPU buffers, the bind groups,
\* MetricsWriter::new(..)? and SnapshotWriter::new(..)?
HeadlessSetup ==
    /\ driver = "headless"
    /\ pc = "setup"
    /\ IF SpawnPanics(herbivores, width, height)
         THEN /\ pc' = "error"
              /\ UNCHANGED <<setup, tex, ul_dst, ul_front, cpu_alive, gpu_alive, parv,
                             mapv>>
         ELSE /\ \E ok \in BOOLEAN : pc' = IF ok THEN "loop" ELSE "error"
              /\ setup' = setup \o HeadlessSetupSteps
              /\ tex' = upload_field_data(NewTextures)
              /\ ul_dst' = "A"
              /\ ul_front' = front_sample_view(front_is_a)
              /\ cpu_alive' = TotalAgents(herbivores)
              /\ gpu_alive' = TotalAgents(herbivores)
              /\ rd_params' = core_RDParams_from(Config)
              /\ agent_params' = core_AgentParams_from(Config)
              /\ rd_params_buffer' =
                   debug_rd_params(scenario, core_RDParams_from(Config))
              /\ agent_params_buffer' =
                   debug_agent_params(scenario, core_AgentParams_from(Config))
    /\ UNCHANGED <<cfgv, seedv, viewv, sample_spans, half_data, newv, failure, emissions_enabled, ul_tick, em_dst, em_front,
                   step, current_step, use_a_as_src, front_is_a,
                   occupancy, countv, obsv, ops, extinct>>

\* for step in 0..=config.world.steps
HeadlessLoop ==
    /\ driver = "headless"
    /\ pc = "loop"
    /\ IF step <= steps
         THEN pc' = "write_params" /\ ops' = <<>>
         ELSE pc' = "done" /\ ops' = ops
    /\ UNCHANGED <<cfgv, setup, parv, auxv, step, current_step, use_a_as_src, front_is_a, cpu_alive,
                   gpuv, countv, obsv, extinct>>

\* queue.write_buffer of both parameter records
HeadlessWriteParams ==
    /\ driver = "headless"
    /\ pc = "write_params"
    /\ pc' = "zero_occupancy"
    /\ rd_params_buffer' = debug_rd_params(scenario, core_RDParams_from(Config))
    /\ agent_params_buffer' =
         debug_agent_params(scenario, core_AgentParams_from(Config))
    /\ ops' = Append(ops, "params")
    /\ UNCHANGED <<cfgv, setup, auxv, step, current_step, use_a_as_src, front_is_a, cpu_alive,
                   gpuv, countv, obsv, extinct>>

\* the tick without its zero write
HeadlessZeroOccupancy_skipped ==
    /\ driver = "headless"
    /\ pc = "zero_occupancy"
    /\ pc' = "agent_pass"
    /\ UNCHANGED <<cfgv, setup, parv, auxv, step, current_step, use_a_as_src, front_is_a, cpu_alive,
                   gpuv, countv, obsv, ops, extinct>>

\* queue.write_buffer(&occupancy_buffer, 0, zeros)
HeadlessZeroOccupancy ==
    /\ driver = "headless"
    /\ pc = "zero_occupancy"
    /\ pc' = "agent_pass"
    /\ occupancy' = {}
    /\ ops' = Append(ops, "clear")
    /\ UNCHANGED <<cfgv, setup, parv, auxv, step, current_step, use_a_as_src, front_is_a, cpu_alive,
                   tex, gpu_alive, countv, obsv, extinct>>

\* agent pass: agent_bg binds view_a_sample, gx = (herbivores + 127) / 128
HeadlessAgentPass ==
    /\ driver = "headless"
    /\ pc = "agent_pass"
    /\ pc' = "occupancy_readback"
    /\ agent_src' = "A"
    /\ occupancy' = AgentKernelDeposit(occupancy, step)
    /\ gpu_alive' \in AgentKernelAlive(herbivores, gpu_alive)
    /\ n_agent' = n_agent + 1
    /\ ops' = Append(ops, "agent")
    /\ UNCHANGED <<cfgv, setup, parv, auxv, step, current_step, use_a_as_src, front_is_a, cpu_alive,
                   tex, n_ticks, n_rd, n_swap,
                   rd_src, rd_dst, rd_src_tex, rd_occ, dl_src, dl_front, extinct>>

\* occupancy PNG at steps 0 | 200 | 1000 | 2000 (a failed save is a warning)
\* and, under --debug-scenario, the debug read-back every 100 steps: both copy
\* out of the occupancy buffer only
HeadlessOccupancyReadback ==
    /\ driver = "headless"
    /\ pc = "occupancy_readback"
    /\ pc' = "rd_pass"
    /\ IF IsMilestone(step)
         THEN \E ok \in BOOLEAN : failure' = IF ok THEN failure ELSE "warning"
         ELSE failure' = failure
    /\ download_ticks' = IF IsMilestone(step) \/ DebugDue(step)
                           THEN download_ticks \cup {step} ELSE download_ticks
    /\ UNCHANGED <<cfgv, setup, parv, legv, extv, seedv, statv, metv, metric_rows,
                   field_images, agent_tables, step, current_step,
                   use_a_as_src, front_is_a, cpu_alive,
                   gpuv, countv, obsv, ops, extinct>>

\* RD pass: rd_bg_a (A -> B) if use_a_as_src, else rd_bg_b (B -> A)
HeadlessRdPass ==
    /\ driver = "headless"
    /\ pc = "rd_pass"
    /\ pc' = "flip"
    /\ LET bg == rd_bind_group(use_a_as_src) IN
         /\ rd_src' = bg.src
         /\ rd_dst' = bg.dst
         /\ rd_src_tex' = tex[bg.src]
         /\ tex' = RdKernel(tex, bg, step)
    /\ rd_occ' = occupancy
    /\ n_rd' = n_rd + 1
    /\ ops' = Append(ops, "rd")
    /\ UNCHANGED <<cfgv, setup, parv, auxv, step, current_step, use_a_as_src, front_is_a, cpu_alive,
                   occupancy, gpu_alive, n_ticks, n_agent, n_swap,
                   agent_src, dl_src, dl_front, extinct>>

\* the tick without its flip
HeadlessFlip_skipped ==
    /\ driver = "headless"
    /\ pc = "flip"
    /\ pc' = "metrics"
    /\ UNCHANGED <<cfgv, setup, parv, auxv, step, current_step, use_a_as_src, front_is_a, cpu_alive,
                   gpuv, countv, obsv, ops, extinct>>

\* use_a_as_src = !use_a_as_src
HeadlessFlip ==
    /\ driver = "headless"
    /\ pc = "flip"
    /\ pc' = "metrics"
    /\ use_a_as_src' = swap(use_a_as_src)
    /\ n_swap' = n_swap + 1
    /\ ops' = Append(ops, "swap")
    /\ UNCHANGED <<cfgv, setup, parv, auxv, step, current_step, front_is_a, cpu_alive,
                   gpuv, n_ticks, n_agent, n_rd, obsv, extinct>>

\* under --debug-scenario the pixel read-back every 100 steps; then
\* if step % 50 == 0: download_field_data, update stats, write_step(...)?
HeadlessMetrics ==
    /\ driver = "headless"
    /\ pc = "metrics"
    /\ download_ticks' = IF MetricsDue(step) \/ DebugDue(step)
                           THEN download_ticks \cup {step} ELSE download_ticks
    /\ IF MetricsDue(step)
         THEN /\ dl_src' = download_field_data(front_is_a)
              /\ dl_front' = Front
              /\ herbivore_history' = push_history(herbivore_history, cpu_alive)
              /\ energy_history' =
                   push_history(energy_history, HostMeanEnergy(herbivores))
              /\ samples' = Append(samples, <<cpu_alive, HostMeanEnergy(herbivores)>>)
              /\ cycle_score' = compute_cycle_score(herbivore_history')
              /\ n_writes' = n_writes + 1
              /\ \E ok \in BOOLEAN :
                   /\ step_count' = step_count_after(step_count, ok)
                   /\ IF ok THEN /\ pc' = "snapshot"
                                 /\ failure' = failure
                                 /\ metric_rows' = Append(metric_rows, step)
                            ELSE /\ pc' = "error"
                                 /\ failure' = "fatal"
                                 /\ metric_rows' = metric_rows
         ELSE /\ pc' = "snapshot"
              /\ UNCHANGED <<dl_src, dl_front, failure, metv, metric_rows>>
    /\ UNCHANGED <<cfgv, setup, parv, legv, extv, seedv, statv, field_images,
                   agent_tables, step, current_step, use_a_as_src, front_is_a,
                   cpu_alive, gpuv, countv, agent_src, rd_src, rd_dst,
                   rd_src_tex, rd_occ, ops, extinct>>

\* if matches!(step, 0 | 200 | 1000 | 2000): download_field_data,
\* write_field_snapshot(..)?, write_agents_snapshot(..)?
HeadlessSnapshot ==
    /\ driver = "headless"
    /\ pc = "snapshot"
    /\ IF IsMilestone(step)
         THEN /\ dl_src' = download_field_data(front_is_a)
              /\ dl_front' = Front
              /\ download_ticks' = download_ticks \cup {step}
              /\ \E out \in {"ok", "field_failed", "agents_failed"} :
                   /\ pc' = IF out = "ok" THEN "extinction_check" ELSE "error"
                   /\ failure' = IF out = "ok" THEN failure ELSE "fatal"
                   /\ field_images' = IF out = "field_failed"
                                        THEN field_images
                                        ELSE field_images \cup {step}
                   /\ agent_tables' = IF out = "ok"
                                        THEN agent_tables \cup {step}
                                        ELSE agent_tables
         ELSE /\ pc' = "extinction_check"
              /\ UNCHANGED <<dl_src, dl_front, failure, logv>>
    /\ UNCHANGED <<cfgv, setup, parv, legv, extv, seedv, statv, metv, metric_rows,
                   step, current_step, use_a_as_src, front_is_a, cpu_alive,
                   gpuv, countv, agent_src, rd_src, rd_dst, rd_src_tex, rd_occ,
                   ops, extinct>>

\* a loop whose index advances by two
HeadlessExtinctionCheck_skipping ==
    /\ driver = "headless"
    /\ pc = "extinction_check"
    /\ n_ticks' = n_ticks + 1
    /\ IF HostExtinct
         THEN pc' = "done" /\ extinct' = TRUE /\ step' = step
         ELSE pc' = "loop" /\ extinct' = extinct /\ step' = step + 2
    /\ UNCHANGED <<cfgv, setup, parv, auxv, current_step, use_a_as_src, front_is_a, cpu_alive,
                   gpuv, n_agent, n_rd, n_swap, obsv, ops>>

\* if agent_manager.get_alive_count() == 0 { break }; else the next step
HeadlessExtinctionCheck ==
    /\ driver = "headless"
    /\ pc = "extinction_check"
    /\ n_ticks' = n_ticks + 1
    /\ IF HostExtinct
         THEN pc' = "done" /\ extinct' = TRUE /\ step' = step
         ELSE pc' = "loop" /\ extinct' = extinct /\ step' = step + 1
    /\ UNCHANGED <<cfgv, setup, parv, auxv, current_step, use_a_as_src, front_is_a, cpu_alive,
                   gpuv, n_agent, n_rd, n_swap, obsv, ops>>

HeadlessNext ==
    \/ HeadlessValidate
    \/ HeadlessCreateDir
    \/ HeadlessInitGpu
    \/ HeadlessSetup
    \/ HeadlessLoop
    \/ HeadlessWriteParams
    \/ HeadlessZeroOccupancy
    \/ HeadlessAgentPass
    \/ HeadlessOccupancyReadback
    \/ HeadlessRdPass
    \/ HeadlessFlip
    \/ HeadlessMetrics
    \/ HeadlessSnapshot
    \/ HeadlessExtinctionCheck

\* ======================= interactive viewer ==============================
\* update(): RDParams/AgentParams re-derived and written to the uniform buffers
ViewerUpdate ==
    /\ driver = "viewer"
    /\ pc = "idle"
    /\ current_step < MaxTicks
    /\ pc' = "run_agent_pass"
    /\ rd_params_buffer' = params_RDParams_from(Config)
    /\ agent_params_buffer' = params_AgentParams_from(Config)
    /\ ops' = <<"params">>
    /\ UNCHANGED <<cfgv, setup, auxv, step, current_step, use_a_as_src, front_is_a, cpu_alive,
                   gpuv, countv, obsv, extinct>>

\* run_agent_pass(): binding 1 is front_sample_view(), ceil(herbivores / 128) groups
ViewerRunAgentPass ==
    /\ driver = "viewer"
    /\ pc = "run_agent_pass"
    /\ pc' = "run_rd_pass"
    /\ agent_src' = front_sample_view(front_is_a)
    /\ occupancy' = AgentKernelDeposit(occupancy, current_step)
    /\ gpu_alive' \in AgentKernelAlive(herbivores, gpu_alive)
    /\ n_agent' = n_agent + 1
    /\ ops' = Append(ops, "agent")
    /\ UNCHANGED <<cfgv, setup, parv, auxv, step, current_step, use_a_as_src, front_is_a, cpu_alive,
                   tex, n_ticks, n_rd, n_swap,
                   rd_src, rd_dst, rd_src_tex, rd_occ, dl_src, dl_front, extinct>>

\* run_rd_pass(): bind group 0 is field_textures.rd_bind_group()
ViewerRunRdPass ==
    /\ driver = "viewer"
    /\ pc = "run_rd_pass"
    /\ pc' = "clear_occupancy_buffer"
    /\ LET bg == rd_bind_group(front_is_a) IN
         /\ rd_src' = bg.src
         /\ rd_dst' = bg.dst
         /\ rd_src_tex' = tex[bg.src]
         /\ tex' = RdKernel(tex, bg, current_step)
    /\ rd_occ' = occupancy
    /\ n_rd' = n_rd + 1
    /\ ops' = Append(ops, "rd")
    /\ UNCHANGED <<cfgv, setup, parv, auxv, step, current_step, use_a_as_src, front_is_a, cpu_alive,
                   occupancy, gpu_alive, n_ticks, n_agent, n_swap,
                   agent_src, dl_src, dl_front, extinct>>

\* update() without its clear pass
ViewerClearOccupancy_skipped ==
    /\ driver = "viewer"
    /\ pc = "clear_occupancy_buffer"
    /\ pc' = "swap"
    /\ UNCHANGED <<cfgv, setup, parv, auxv, step, current_step, use_a_as_src, front_is_a, cpu_alive,
                   gpuv, countv, obsv, ops, extinct>>

\* clear_occupancy_buffer(): clear pass over ceil(cells / 128) groups
ViewerClearOccupancy ==
    /\ driver = "viewer"
    /\ pc = "clear_occupancy_buffer"
    /\ pc' = "swap"
    /\ occupancy' = ClearKernel(occupancy)
    /\ ops' = Append(ops, "clear")
    /\ UNCHANGED <<cfgv, setup, parv, auxv, step, current_step, use_a_as_src, front_is_a, cpu_alive,
                   tex, gpu_alive, countv, obsv, extinct>>

\* update() returning before its swap
ViewerSwap_unswapped ==
    /\ driver = "viewer"
    /\ pc = "swap"
    /\ pc' = "render"
    /\ UNCHANGED <<cfgv, setup, parv, auxv, step, current_step, use_a_as_src,
                   front_is_a, cpu_alive, gpuv, countv, obsv, ops, extinct>>

\* field_textures.swap(); current_step += 1; Ok(())
ViewerSwap ==
    /\ driver = "viewer"
    /\ pc = "swap"
    /\ pc' = "render"
    /\ front_is_a' = swap(front_is_a)
    /\ current_step' = current_step + 1
    /\ n_swap' = n_swap + 1
    /\ n_ticks' = n_ticks + 1
    /\ ops' = Append(ops, "swap")
    /\ UNCHANGED <<cfgv, setup, parv, auxv, step, use_a_as_src, cpu_alive,
                   gpuv, n_agent, n_rd, obsv, extinct>>

\* render(): draws the agent buffer; called by the event loop after update(),
\* which only logs an error of either call and goes on
ViewerRender ==
    /\ driver = "viewer"
    /\ pc = "render"
    /\ pc' = "idle"
    /\ \E ok \in BOOLEAN : failure' = IF ok THEN failure ELSE "warning"
    /\ UNCHANGED <<cfgv, setup, parv, legv, extv, seedv, newv, step, current_step, use_a_as_src, front_is_a, cpu_alive,
                   gpuv, countv, obsv, ops, extinct>>

\* resize(new_size): if width > 0 && height > 0, field_textures.recreate(...)
ViewerResize ==
    /\ driver = "viewer"
    /\ pc = "idle"
    /\ \E nonzero \in BOOLEAN :
         IF nonzero
           THEN /\ tex' = recreate(tex, front_is_a).tex
                /\ front_is_a' = recreate(tex, front_is_a).front_is_a
           ELSE UNCHANGED <<tex, front_is_a>>
    /\ UNCHANGED <<cfgv, setup, parv, auxv, pc, step, current_step, use_a_as_src, cpu_alive,
                   occupancy, gpu_alive, countv, obsv, ops, extinct>>

\* the fields of the Viewer that handle_key is handed through `&mut self`
ViewerSelf ==
    [show_r_field |-> show_r_field, show_w_field |-> show_w_field,
     show_occupancy |-> show_occupancy, show_gradients |-> show_gradients,
     scenario_mode |-> scenario_mode, current_step |-> current_step]

\* the keys the event loop hands to handle_key (Escape is taken before)
Keys == {"1", "2", "3", "g", "G", "F1", "F2", "F3", "other"}

OverlaysOff(self) ==
    [self EXCEPT !.show_r_field = FALSE, !.show_w_field = FALSE,
                 !.show_occupancy = FALSE, !.show_gradients = FALSE]

\* a handle_key whose scenario keys also restart the run
handle_key_restarting(self, key) ==
    IF key = "1" THEN [OverlaysOff(self) EXCEPT !.show_r_field = ~self.show_r_field]
    ELSE IF key = "2" THEN [OverlaysOff(self) EXCEPT !.show_w_field = ~self.show_w_field]
    ELSE IF key = "3"
      THEN [OverlaysOff(self) EXCEPT !.show_occupancy = ~self.show_occupancy]
    ELSE IF key \in {"g", "G"}
      THEN [OverlaysOff(self) EXCEPT !.show_gradients = ~self.show_gradients]
    ELSE IF key = "F1" THEN [self EXCEPT !.scenario_mode = "baseline", !.current_step = 0]
    ELSE IF key = "F2" THEN [self EXCEPT !.scenario_mode = "clumpy", !.current_step = 0]
    ELSE IF key = "F3" THEN [self EXCEPT !.scenario_mode = "flat", !.current_step = 0]
    ELSE self

\* Viewer::handle_key(&mut self, key)
handle_key(self, key) ==
    IF key = "1" THEN [OverlaysOff(self) EXCEPT !.show_r_field = ~self.show_r_field]
    ELSE IF key = "2" THEN [OverlaysOff(self) EXCEPT !.show_w_field = ~self.show_w_field]
    ELSE IF key = "3"
      THEN [OverlaysOff(self) EXCEPT !.show_occupancy = ~self.show_occupancy]
    ELSE IF key \in {"g", "G"}
      THEN [OverlaysOff(self) EXCEPT !.show_gradients = ~self.show_gradients]
    ELSE IF key = "F1" THEN [self EXCEPT !.scenario_mode = "baseline"]
    ELSE IF key = "F2" THEN [self EXCEPT !.scenario_mode = "clumpy"]
    ELSE IF key = "F3" THEN [self EXCEPT !.scenario_mode = "flat"]
    ELSE self

\* WindowEvent::KeyboardInput (pressed, not Escape): viewer.handle_key(key),
\* between two frames
ViewerHandleKey ==
    /\ driver = "viewer"
    /\ pc = "idle"
    /\ \E key \in Keys :
         LET self == handle_key(ViewerSelf, key) IN
           /\ show_r_field' = self.show_r_field
           /\ show_w_field' = self.show_w_field
           /\ show_occupancy' = self.show_occupancy
           /\ show_gradients' = self.show_gradients
           /\ scenario_mode' = self.scenario_mode
           /\ current_step' = self.current_step
    /\ UNCHANGED <<cfgv, setup, parv, legv, seedv, failure, newv, mapv,
                   sample_spans, half_data, pc, step,
                   use_a_as_src, front_is_a, cpu_alive, gpuv, countv, obsv, ops,
                   extinct>>

ViewerNext ==
    \/ ViewerUpdate
    \/ ViewerRunAgentPass
    \/ ViewerRunRdPass
    \/ ViewerClearOccupancy
    \/ ViewerSwap
    \/ ViewerRender
    \/ ViewerResize

Next == HeadlessNext \/ ViewerNext

Spec == Init /\ [][Next]_vars

\* ======================= legacy driver (src/main.rs, Gfx) =================
\* diffuse_bg_a2b (sample A, store B) if use_a_as_src, else diffuse_bg_b2a
diffuse_bg(u) == IF u THEN [src |-> "A", dst |-> "B"] ELSE [src |-> "B", dst |-> "A"]

\* particle_bg_read_a if use_a_as_src, else particle_bg_read_b
particle_bg(u) == IF u THEN "A" ELSE "B"

\* emissions_bg_a (store view of A) if use_a_as_src, else emissions_bg_b
emissions_bg(u) == IF u THEN "A" ELSE "B"

\* seed_field(): queue.write_texture into field_a
seed_field(t, u, k) == [t EXCEPT !["A"] = Uploaded(k)]

\* state after Gfx::new: both textures created, use_a_as_src: true, seed_field()
InitLegacy ==
    /\ driver = "legacy"
    /\ steps = MaxSteps
    /\ herbivores = 0
    /\ width = MaxSize
    /\ height = MaxSize
    /\ dt = MaxDt
    /\ scenario = "none"
    /\ pc = "l_idle"
    /\ setup = <<"init_gpu", "textures", "map_params", "buffers", "seed", "upload">>
    /\ rd_params_buffer = NoParams
    /\ agent_params_buffer = NoParams
    /\ step = 0
    /\ current_step = 0
    /\ use_a_as_src = TRUE
    /\ front_is_a = TRUE
    /\ tex = seed_field(NewTextures, TRUE, 0)
    /\ occupancy = {}
    /\ gpu_alive = 0
    /\ cpu_alive = 0
    /\ ops = <<>>
    /\ n_ticks = 0
    /\ n_agent = 0
    /\ n_rd = 0
    /\ n_swap = 0
    /\ agent_src = "-"
    /\ rd_src = "-"
    /\ rd_dst = "-"
    /\ rd_src_tex = Undefined
    /\ rd_occ = {}
    /\ dl_src = "-"
    /\ dl_front = "-"
    /\ extinct = FALSE
    /\ ul_dst = "A"
    /\ ul_front = "A"
    /\ ul_tick = 0
    /\ LegacyIdle
    /\ StoresIdle
    /\ failure = "none"
    /\ StatsIdle
    /\ MetricsIdle
    /\ LogsIdle
    /\ ViewIdle
    /\ MappedIdle

\* frame(): surface.get_current_texture()?, then the encoder is created
LegacyFrameBegin ==
    /\ driver = "legacy"
    /\ pc = "l_idle"
    /\ n_ticks < MaxTicks
    /\ \E ok \in BOOLEAN : pc' = IF ok THEN "l_diffuse" ELSE "l_idle"
    /\ UNCHANGED <<cfgv, setup, parv, auxv, step, current_step, use_a_as_src,
                   front_is_a, cpu_alive, gpuv, countv, obsv, ops, extinct>>

\* diffuse pass (ping-pong)
LegacyDiffuse ==
    /\ driver = "legacy"
    /\ pc = "l_diffuse"
    /\ pc' = "l_flip"
    /\ LET bg == diffuse_bg(use_a_as_src) IN
         /\ rd_src' = bg.src
         /\ rd_dst' = bg.dst
         /\ rd_src_tex' = tex[bg.src]
         /\ tex' = RdKernel(tex, bg, n_ticks)
    /\ n_rd' = n_rd + 1
    /\ UNCHANGED <<cfgv, setup, parv, auxv, step, current_step, use_a_as_src,
                   front_is_a, cpu_alive, occupancy, gpu_alive, n_ticks, n_agent,
                   n_swap, agent_src, rd_occ, dl_src, dl_front, ops, extinct>>

\* self.use_a_as_src = !self.use_a_as_src
LegacyFlip ==
    /\ driver = "legacy"
    /\ pc = "l_flip"
    /\ pc' = "l_particles"
    /\ use_a_as_src' = ~use_a_as_src
    /\ n_swap' = n_swap + 1
    /\ UNCHANGED <<cfgv, setup, parv, auxv, step, current_step, front_is_a,
                   cpu_alive, gpuv, n_ticks, n_agent, n_rd, obsv, ops, extinct>>

\* particles pass (reads the current source)
LegacyParticles ==
    /\ driver = "legacy"
    /\ pc = "l_particles"
    /\ pc' = "l_emissions"
    /\ agent_src' = particle_bg(use_a_as_src)
    /\ n_agent' = n_agent + 1
    /\ UNCHANGED <<cfgv, setup, parv, auxv, step, current_step, use_a_as_src,
                   front_is_a, cpu_alive, gpuv, n_ticks, n_rd, n_swap,
                   rd_src, rd_dst, rd_src_tex, rd_occ, dl_src, dl_front,
                   ops, extinct>>

\* emissions pass (particles deposit into the field), if emissions_enabled == 1
LegacyEmissions ==
    /\ driver = "legacy"
    /\ pc = "l_emissions"
    /\ pc' = "l_render"
    /\ IF emissions_enabled
         THEN /\ em_dst' = emissions_bg(use_a_as_src)
              /\ em_front' = Front
              /\ tex' = [tex EXCEPT ![emissions_bg(use_a_as_src)] = EmOut(n_ticks)]
         ELSE UNCHANGED <<em_dst, em_front, tex>>
    /\ UNCHANGED <<cfgv, setup, parv, seedv, extv, newv, failure, emissions_enabled, ul_dst, ul_front,
                   ul_tick, step, current_step, use_a_as_src, front_is_a,
                   cpu_alive, occupancy, gpu_alive, countv, obsv, ops, extinct>>

\* render pass, queue.submit, frame.present(), Ok(())
LegacyRender ==
    /\ driver = "legacy"
    /\ pc = "l_render"
    /\ pc' = "l_idle"
    /\ n_ticks' = n_ticks + 1
    /\ UNCHANGED <<cfgv, setup, parv, auxv, step, current_step, use_a_as_src,
                   front_is_a, cpu_alive, gpuv, n_agent, n_rd, n_swap, obsv,
                   ops, extinct>>

\* key R: state.seed_field()
LegacySeedField ==
    /\ driver = "legacy"
    /\ pc = "l_idle"
    /\ tex' = seed_field(tex, use_a_as_src, n_ticks)
    /\ ul_dst' = "A"
    /\ ul_front' = Front
    /\ ul_tick' = n_ticks
    /\ setup' = setup
    /\ UNCHANGED <<cfgv, parv, seedv, extv, newv, failure, emissions_enabled, em_dst, em_front,
                   hostv, occupancy, gpu_alive, countv, obsv, ops, extinct>>

\* key E: state.params.emissions_enabled ^= 1, written to params_buf
LegacyToggleEmissions ==
    /\ driver = "legacy"
    /\ pc = "l_idle"
    /\ emissions_enabled' = ~emissions_enabled
    /\ UNCHANGED <<cfgv, setup, parv, seedv, extv, newv, failure, ul_dst, ul_front, ul_tick, em_dst,
                   em_front, hostv, gpuv, countv, obsv, ops, extinct>>

LegacyNext ==
    \/ LegacyFrameBegin
    \/ LegacyDiffuse
    \/ LegacyFlip
    \/ LegacyParticles
    \/ LegacyEmissions
    \/ LegacyRender
    \/ LegacySeedField
    \/ LegacyToggleEmissions

SpecLegacy == InitLegacy /\ [][LegacyNext]_vars

\* ======================= the CPU-side stores =============================
\* FieldManager (fields.rs) on a grid of GridW x GridH cells, row-major as in
\* get_index; a model cell stands for a block of the grid wider than a blob.
\* Amplitudes in tenths.  AgentManager (agents.rs), energies in tenths.
NumCells == GridW * GridH

Cells == 0..(NumCells - 1)

\* FieldManager::get_index(x, y) and its inverse
get_index(x, y) == y * GridW + x

XOf(i) == i % GridW

YOf(i) == i \div GridW

Seeds == 0..MaxSeed

\* the cell the centre source peaks in: (w / 2, h / 2)
CenterCell == get_index(GridW \div 2, GridH \div 2)

\* FieldData::zero()
zero == [R |-> 0, W |-> 0]

\* FieldManager::new(size)
FieldManager_new == [i \in Cells |-> zero]

\* ChaCha8Rng::seed_from_u64(seed): draw number i, a value below n that
\* depends on the seed and on i alone
Draw(seed, i, n) == (seed * 7 + i * 3 + 1) % n

set_resource(g, i, v) == [g EXCEPT ![i].R = v]

set_waste(g, i, v) == [g EXCEPT ![i].W = v]

\* seed_resources without its clearing loop
ClearData_kept(g) == g

\* seed_resources 0) clear / baseline
ClearData(g) == [i \in Cells |-> zero]

\* seed_resources 1) primary center source: set_resource on every cell
CenterSource(g) ==
    [i \in Cells |-> [g[i] EXCEPT !.R = IF i = CenterCell THEN AMP_CENTER ELSE 0]]

\* one gaussian of amplitude amp centred on cell c, added to the grid
AddBlob(g, c, amp) ==
    [i \in Cells |-> [g[i] EXCEPT !.R = @ + (IF i = c THEN amp ELSE 0)]]

\* seed_resources 2) and 3): k blobs, three draws each (x, y, amplitude),
\* amplitudes from lo upwards, draws numbered from i on
RECURSIVE AddBlobs(_, _, _, _, _)
AddBlobs(g, seed, k, i, lo) ==
    IF k = 0 THEN g
    ELSE AddBlobs(AddBlob(g, get_index(Draw(seed, i, GridW),
                                       Draw(seed, i + 1, GridH)),
                          lo + Draw(seed, i + 2, 4)),
                  seed, k - 1, i + 3, lo)

Sgn(n) == IF n > 0 THEN 1 ELSE IF n < 0 THEN 0 - 1 ELSE 0

\* the drawn direction theta, as one of the four axis directions
DirX(t) == IF t = 0 THEN 1 ELSE IF t = 2 THEN 0 - 1 ELSE 0

DirY(t) == IF t = 1 THEN 1 ELSE IF t = 3 THEN 0 - 1 ELSE 0

\* seed_resources 4) gentle gradient along a drawn direction: the ramp is at
\* most 0.06 either way and is carried as one tenth with the sign of proj
AddGradient_skipped(g, seed, i) == g

AddGradient(g, seed, i) ==
    LET t == Draw(seed, i, 4) IN
    [c \in Cells |-> [g[c] EXCEPT !.R =
        @ + Sgn((XOf(c) - XOf(CenterCell)) * DirX(t)
                + (YOf(c) - YOf(CenterCell)) * DirY(t))]]

\* seed_resources without its final clamp
ClampData_unclamped(g) == g

\* seed_resources 5) final clamp (non-negative)
ClampData(g) == [i \in Cells |-> [g[i] EXCEPT !.R = IF @ < 0 THEN 0 ELSE @]]

\* FieldManager::seed_resources(seed)
seed_resources(g, seed) ==
    LET g0 == ClearData(g)
        g1 == CenterSource(g0)
        g2 == AddBlobs(g1, seed, NUM_CLUSTERS, 0, 3)
        g3 == AddBlobs(g2, seed, NUM_SOURCES, 3 * NUM_CLUSTERS, 2)
        g4 == AddGradient(g3, seed, 3 * NUM_CLUSTERS + 3 * NUM_SOURCES)
    IN ClampData(g4)

\* AgentManager::new: kind of agent i (plants first, herbivores, predators)
KindOf(h, i) ==
    IF i <= PlantCount(h) THEN 0
    ELSE IF i <= PlantCount(h) + ActualHerbivoreCount(h) THEN 1 ELSE 2

\* number of the first draw made for agent i: plants draw 2 values, others 4
FirstDraw(h, i) ==
    IF KindOf(h, i) = 0 THEN 2 * (i - 1)
    ELSE 2 * PlantCount(h) + 4 * (i - 1 - PlantCount(h))

SpawnMargin(k) ==
    IF k = 0 THEN PLANT_MARGIN ELSE IF k = 1 THEN HERBIVORE_MARGIN ELSE PREDATOR_MARGIN

\* AgentManager::new(herbivore_count, world_size, initial_energy, seed).agents
AgentManager_new(h, size, e, seed) ==
    [i \in 1..TotalAgents(h) |->
        LET k == KindOf(h, i)
            m == SpawnMargin(k)
            j == FirstDraw(h, i)
        IN [kind |-> k,
            x |-> m + Draw(seed, j, size[1] - 2 * m),
            y |-> m + Draw(seed, j + 1, size[2] - 2 * m),
            vel |-> IF k = 0 THEN <<0, 0>>
                    ELSE <<Draw(seed, j + 2, 8), 1 + Draw(seed, j + 3, 4)>>,
            energy |-> SpawnEnergy(k, e),
            alive |-> TRUE]]

\* the cells the callers write: a corner, the first interior cell and its
\* neighbours to the east and to the south
ProbeCells == {get_index(0, 0), get_index(1, 1), get_index(2, 1), get_index(1, 2)}

\* the world and the energy the stores are created for
StoreWorld == <<MaxSize, MaxSize>>

StoreEnergy == MaxDt

\* FieldManager::update_stats ----------------------------------------------
\* x > 0 && x < size[0] - 1 && y > 0 && y < size[1] - 1
Interior(i) ==
    /\ XOf(i) > 0
    /\ XOf(i) < GridW - 1
    /\ YOf(i) > 0
    /\ YOf(i) < GridH - 1

\* sqrt on f32, rounded down to a whole number
ISqrt(n, hi) == CHOOSE k \in 0..hi : k * k <= n /\ (k + 1) * (k + 1) > n

\* twice the gradient magnitude at the interior cell i: dx and dy are central
\* differences divided by 2.0
GradMag2(g, i) ==
    LET dx2 == g[get_index(XOf(i) + 1, YOf(i))].R - g[get_index(XOf(i) - 1, YOf(i))].R
        dy2 == g[get_index(XOf(i), YOf(i) + 1)].R - g[get_index(XOf(i), YOf(i) - 1)].R
    IN ISqrt(dx2 * dx2 + dy2 * dy2, Abs(dx2) + Abs(dy2))

RECURSIVE SumCells(_, _, _)
\* the loop over the cells 0..n-1: sum of R (ch = "R"), of W (ch = "W"), of
\* their squares (ch = "RR", "WW"), of twice the gradient magnitude (ch = "G")
SumCells(g, ch, n) ==
    IF n = 0 THEN 0
    ELSE SumCells(g, ch, n - 1)
         + (CASE ch = "R" -> g[n - 1].R
              [] ch = "W" -> g[n - 1].W
              [] ch = "RR" -> g[n - 1].R * g[n - 1].R
              [] ch = "WW" -> g[n - 1].W * g[n - 1].W
              [] OTHER -> IF Interior(n - 1) THEN GradMag2(g, n - 1) ELSE 0)

\* max_R = max_R.max(R) over the cells, and the like
MaxR(g) == CHOOSE v \in {g[i].R : i \in Cells} : \A i \in Cells : g[i].R <= v

MinR(g) == CHOOSE v \in {g[i].R : i \in Cells} : \A i \in Cells : g[i].R >= v

MaxW(g) == CHOOSE v \in {g[i].W : i \in Cells} : \A i \in Cells : g[i].W <= v

MinW(g) == CHOOSE v \in {g[i].W : i \in Cells} : \A i \in Cells : g[i].W >= v

\* (sum_sq / count) - (mean * mean), then .max(0.0), in thousandths
Variance(sum_sq, mean, count) ==
    LET v == Ratio(sum_sq, count) - (mean * mean) \div Milli
    IN IF v < 0 THEN 0 ELSE v

\* FieldManager::update_stats(): the statistics it stores; count is data.len()
field_update_stats(g) ==
    LET count == NumCells
        mean_R == Ratio(SumCells(g, "R", NumCells), count)
        mean_W == Ratio(SumCells(g, "W", NumCells), count)
    IN [mean_R |-> mean_R,
        mean_W |-> mean_W,
        var_R |-> Variance(SumCells(g, "RR", NumCells), mean_R, count),
        var_W |-> Variance(SumCells(g, "WW", NumCells), mean_W, count),
        mean_grad_R |-> Ratio(SumCells(g, "G", NumCells), 2 * count),
        max_R |-> MaxR(g),
        max_W |-> MaxW(g),
        min_R |-> MinR(g),
        min_W |-> MinW(g)]

\* texel sequences a caller hands over: one f16 short, the exact length, one
\* cell too many
TexelLengths == {4 * NumCells - 1, 4 * NumCells, 4 * NumCells + 4}

\* len texels whose channels differ within a cell and from cell to cell, in
\* the units of the grid
Texels(len, p) == [i \in 1..len |-> (i + p) % (MaxCell + 4)]

\* f16::to_f32: every f16 value is an f32 value, the widening is exact
f16_to_f32(x) == x

\* a from_rgba16f that copies the cells it is given before it checks the length
from_rgba16f_checking_late(g, half) ==
    [data |-> [i \in Cells |->
                 IF 4 * i + 4 <= Len(half)
                   THEN [R |-> f16_to_f32(half[4 * i + 1]),
                         W |-> f16_to_f32(half[4 * i + 2])]
                   ELSE g[i]],
     panicked |-> Len(half) # NumCells * 4]

\* FieldManager::from_rgba16f(data): panic on a length other than 4 per cell,
\* else cell i takes R and W from texels 4i and 4i + 1
from_rgba16f(g, half) ==
    IF Len(half) # NumCells * 4
      THEN [data |-> g, panicked |-> TRUE]
      ELSE [data |-> [i \in Cells |-> [R |-> f16_to_f32(half[4 * i + 1]),
                                        W |-> f16_to_f32(half[4 * i + 2])]],
            panicked |-> FALSE]

\* what the two stores do not own
StoresFrame == <<cfgv, hostv, gpuv, countv, obsv, ops, extinct, setup, parv,
                 legv, extv, failure, agstatv, metv, logv>>

\* a FieldManager and an AgentManager right after their construction
InitStores ==
    /\ driver = "stores"
    /\ steps = MaxSteps
    /\ herbivores = 0
    /\ width = MaxSize
    /\ height = MaxSize
    /\ dt = MaxDt
    /\ scenario = "none"
    /\ pc = "stores"
    /\ setup = <<>>
    /\ rd_params_buffer = NoParams
    /\ agent_params_buffer = NoParams
    /\ step = 0
    /\ current_step = 0
    /\ use_a_as_src = TRUE
    /\ front_is_a = TRUE
    /\ tex = NewTextures
    /\ occupancy = {}
    /\ gpu_alive = 0
    /\ cpu_alive = 0
    /\ ops = <<>>
    /\ n_ticks = 0
    /\ n_agent = 0
    /\ n_rd = 0
    /\ n_swap = 0
    /\ agent_src = "-"
    /\ rd_src = "-"
    /\ rd_dst = "-"
    /\ rd_src_tex = Undefined
    /\ rd_occ = {}
    /\ dl_src = "-"
    /\ dl_front = "-"
    /\ extinct = FALSE
    /\ ul_dst = "-"
    /\ ul_front = "-"
    /\ ul_tick = 0
    /\ LegacyIdle
    /\ failure = "none"
    /\ data = FieldManager_new
    /\ agents = AgentManager_new(0, StoreWorld, StoreEnergy, 0)
    /\ seed_args = NoSeedArgs
    /\ n_calls = 0
    /\ StatsIdle
    /\ MetricsIdle
    /\ LogsIdle
    /\ ViewIdle
    /\ MappedIdle

\* field_manager.seed_resources(seed)
StoreSeedResources ==
    /\ pc = "stores"
    /\ n_calls < MaxCalls
    /\ \E s \in Seeds :
         /\ data' = seed_resources(data, s)
         /\ seed_args' = [seed_args EXCEPT !.field_seed = s, !.before = data]
    /\ field_call' = "seed_resources"
    /\ n_calls' = n_calls + 1
    /\ UNCHANGED <<StoresFrame, agents, field_stats>>

\* field_manager.set_resource(x, y, value)
StoreSetResource ==
    /\ pc = "stores"
    /\ n_calls < MaxCalls
    /\ \E i \in ProbeCells, v \in 0..MaxCell : data' = set_resource(data, i, v)
    /\ seed_args' = [seed_args EXCEPT !.field_seed = 0 - 1, !.before = <<>>]
    /\ field_call' = "set_resource"
    /\ n_calls' = n_calls + 1
    /\ UNCHANGED <<StoresFrame, agents, field_stats>>

\* field_manager.set_waste(x, y, value)
StoreSetWaste ==
    /\ pc = "stores"
    /\ n_calls < MaxCalls
    /\ \E i \in ProbeCells, v \in 0..MaxCell : data' = set_waste(data, i, v)
    /\ seed_args' = [seed_args EXCEPT !.field_seed = 0 - 1, !.before = <<>>]
    /\ field_call' = "set_waste"
    /\ n_calls' = n_calls + 1
    /\ UNCHANGED <<StoresFrame, agents, field_stats>>

\* AgentManager::new(count, world_size, initial_energy, seed)
StoreAgentsNew ==
    /\ pc = "stores"
    /\ n_calls < MaxCalls
    /\ \E c \in 0..MaxHerbivores, s \in Seeds :
         /\ ~SpawnPanics(c, StoreWorld[1], StoreWorld[2])
         /\ agents' = AgentManager_new(c, StoreWorld, StoreEnergy, s)
         /\ seed_args' = [seed_args EXCEPT !.agent_count = c, !.agent_seed = s]
    /\ n_calls' = n_calls + 1
    /\ UNCHANGED <<StoresFrame, data, fldstatv>>

\* field_manager.update_stats()
StoreFieldUpdateStats ==
    /\ pc = "stores"
    /\ n_calls < MaxCalls
    /\ driver = "stores"
    /\ field_stats' = field_update_stats(data)
    /\ field_call' = "update_stats"
    /\ n_calls' = n_calls + 1
    /\ UNCHANGED <<StoresFrame, data, agents, seed_args>>

\* field_manager.from_rgba16f(&half_data): panics on a wrong length
StoreFromRgba16f ==
    /\ pc = "stores"
    /\ n_calls < MaxCalls
    /\ \E len \in TexelLengths, p \in Seeds :
         /\ half_data' = Texels(len, p)
         /\ data' = from_rgba16f(data, half_data').data
         /\ IF from_rgba16f(data, half_data').panicked
              THEN pc' = "panicked" /\ failure' = "panic"
              ELSE pc' = pc /\ failure' = failure
    /\ seed_args' = [seed_args EXCEPT !.field_seed = 0 - 1, !.before = data]
    /\ field_call' = "from_rgba16f"
    /\ n_calls' = n_calls + 1
    /\ UNCHANGED <<cfgv, step, current_step, use_a_as_src, front_is_a, cpu_alive,
                   gpuv, countv, obsv, ops, extinct, setup, parv, legv, viewv,
                   mapv, sample_spans, agstatv, metv, logv, agents, field_stats>>

StoresNext ==
    \/ StoreFromRgba16f
    \/ StoreSeedResources
    \/ StoreSetResource
    \/ StoreSetWaste
    \/ StoreAgentsNew
    \/ StoreFieldUpdateStats

SpecStores == InitStores /\ [][StoresNext]_vars

\* ======================= the agent store ==================================
\* AgentManager (agents.rs) called directly: new, kill, update_stats,
\* get_alive_count, reset.  A velocity is kept as (heading, speed), so that
\* sqrt(vx^2 + vy^2) is its speed; statistics are in thousandths.
StoreWorlds == {<<MIN_WORLD_SIZE, MIN_WORLD_SIZE>>, StoreWorld}

\* Agent::is_alive without its test
is_alive_any(a) == TRUE

\* Agent::is_alive(): alive == 1
is_alive(a) == a.alive

\* an Agent::kill that also drains the energy
kill_drained(a) == [a EXCEPT !.alive = FALSE, !.energy = 0]

\* Agent::kill(): alive = 0
kill(a) == [a EXCEPT !.alive = FALSE]

\* (vel[0] * vel[0] + vel[1] * vel[1]).sqrt()
Speed(a) == a.vel[2]

\* update_stats without its filter
AliveAgents_all(ag) == ag

\* self.agents.iter().filter(|a| a.is_alive()).collect()
AliveAgents(ag) == SelectSeq(ag, is_alive)

RECURSIVE SumEnergy(_)
\* iter().map(|a| a.energy).sum()
SumEnergy(s) == IF s = <<>> THEN 0 ELSE Head(s).energy + SumEnergy(Tail(s))

RECURSIVE SumSpeed(_)
\* iter().map(|a| speed of a).sum()
SumSpeed(s) == IF s = <<>> THEN 0 ELSE Speed(Head(s)) + SumSpeed(Tail(s))

\* AgentManager::update_stats(): the statistics it stores
update_stats(ag) ==
    LET alive_agents == AliveAgents(ag) IN
    IF alive_agents = <<>> THEN AgentStats_default
    ELSE LET alive_count == Len(alive_agents)
             total_energy == SumEnergy(alive_agents)
             mean_energy == Ratio(total_energy, alive_count)
             total_velocity == SumSpeed(alive_agents)
             mean_velocity == Ratio(total_velocity, alive_count)
         IN [alive_count |-> alive_count,
             total_energy |-> total_energy,
             mean_energy |-> mean_energy,
             mean_velocity |-> mean_velocity,
             foraging_efficiency |->
                 IF mean_velocity > 0 THEN Ratio(mean_energy, mean_velocity)
                                      ELSE 0]

\* AgentManager::get_alive_count()
get_alive_count(ag) == Len(SelectSeq(ag, is_alive))

\* AgentManager::reset(): Self::new(self.agents.len() as u32, ...)
reset(ag, world, e, seed) == AgentManager_new(Len(ag), world, e, seed)

\* what the agent store does not own
AgentsFrame == <<cfgv, step, current_step, use_a_as_src, front_is_a, cpu_alive,
                 gpuv, countv, obsv, ops, extinct, setup, parv, legv, extv, data,
                 fldstatv, metv, logv>>

\* no AgentManager constructed yet
InitAgents ==
    /\ driver = "agents"
    /\ steps = MaxSteps
    /\ herbivores = 0
    /\ width = MaxSize
    /\ height = MaxSize
    /\ dt = MaxDt
    /\ scenario = "none"
    /\ pc = "no_manager"
    /\ setup = <<>>
    /\ rd_params_buffer = NoParams
    /\ agent_params_buffer = NoParams
    /\ step = 0
    /\ current_step = 0
    /\ use_a_as_src = TRUE
    /\ front_is_a = TRUE
    /\ tex = NewTextures
    /\ occupancy = {}
    /\ gpu_alive = 0
    /\ cpu_alive = 0
    /\ ops = <<>>
    /\ n_ticks = 0
    /\ n_agent = 0
    /\ n_rd = 0
    /\ n_swap = 0
    /\ agent_src = "-"
    /\ rd_src = "-"
    /\ rd_dst = "-"
    /\ rd_src_tex = Undefined
    /\ rd_occ = {}
    /\ dl_src = "-"
    /\ dl_front = "-"
    /\ extinct = FALSE
    /\ ul_dst = "-"
    /\ ul_front = "-"
    /\ ul_tick = 0
    /\ LegacyIdle
    /\ StoresIdle
    /\ failure = "none"
    /\ StatsIdle
    /\ MetricsIdle
    /\ LogsIdle
    /\ ViewIdle
    /\ MappedIdle

\* AgentManager::new(count, world_size, initial_energy, seed)
AgentsNew ==
    /\ driver = "agents"
    /\ pc = "no_manager"
    /\ \E c \in 0..MaxHerbivores, w \in StoreWorlds, s \in Seeds :
         /\ IF SpawnPanics(c, w[1], w[2])
              THEN pc' = "panicked" /\ failure' = "panic" /\ agents' = agents
              ELSE /\ pc' = "manager"
                   /\ failure' = failure
                   /\ agents' = AgentManager_new(c, w, StoreEnergy, s)
         /\ seed_args' = [seed_args EXCEPT !.agent_count = c, !.agent_seed = s,
                                           !.agent_world = w]
         /\ agent_call' = AgentCall("new", agents, 0, w, s)
    /\ stats' = AgentStats_default
    /\ UNCHANGED <<AgentsFrame, n_calls, alive_ret>>

\* agent_manager.agents[i].kill()
AgentsKill ==
    /\ driver = "agents"
    /\ pc = "manager"
    /\ n_calls < MaxAgentCalls
    /\ \E i \in 1..Len(agents) :
         /\ agents' = [agents EXCEPT ![i] = kill(@)]
         /\ agent_call' = AgentCall("kill", agents, i, <<>>, 0 - 1)
    /\ n_calls' = n_calls + 1
    /\ UNCHANGED <<AgentsFrame, pc, failure, seed_args, stats, alive_ret>>

\* agent_manager.update_stats()
AgentsUpdateStats ==
    /\ driver = "agents"
    /\ pc = "manager"
    /\ n_calls < MaxAgentCalls
    /\ stats' = update_stats(agents)
    /\ agent_call' = AgentCall("update_stats", agents, 0, <<>>, 0 - 1)
    /\ n_calls' = n_calls + 1
    /\ UNCHANGED <<AgentsFrame, pc, failure, seed_args, agents, alive_ret>>

\* agent_manager.get_alive_count()
AgentsGetAliveCount ==
    /\ driver = "agents"
    /\ pc = "manager"
    /\ n_calls < MaxAgentCalls
    /\ alive_ret' = get_alive_count(agents)
    /\ agent_call' = AgentCall("get_alive_count", agents, 0, <<>>, 0 - 1)
    /\ n_calls' = n_calls + 1
    /\ UNCHANGED <<AgentsFrame, pc, failure, seed_args, agents, stats>>

\* agent_manager.reset(world_size, initial_energy, seed), while the array it
\* asks for stays within MaxAgents
AgentsReset ==
    /\ driver = "agents"
    /\ pc = "manager"
    /\ n_calls < MaxAgentCalls
    /\ TotalAgents(Len(agents)) <= MaxAgents
    /\ \E w \in StoreWorlds, s \in Seeds :
         /\ IF SpawnPanics(Len(agents), w[1], w[2])
              THEN pc' = "panicked" /\ failure' = "panic" /\ agents' = agents
                   /\ stats' = stats
              ELSE /\ pc' = "manager"
                   /\ failure' = failure
                   /\ agents' = reset(agents, w, StoreEnergy, s)
                   /\ stats' = AgentStats_default
         /\ agent_call' = AgentCall("reset", agents, 0, w, s)
    /\ n_calls' = n_calls + 1
    /\ UNCHANGED <<AgentsFrame, seed_args, alive_ret>>

AgentsNext ==
    \/ AgentsNew
    \/ AgentsKill
    \/ AgentsUpdateStats
    \/ AgentsGetAliveCount
    \/ AgentsReset

SpecAgents == InitAgents /\ [][AgentsNext]_vars

\* ======================= the metrics writer ===============================
\* MetricsWriter (metrics.rs) called directly, with the statistics of a
\* population that is complete until it dies out
\* alive counts a caller reports: a population, and none
Populations == {TotalAgents(MaxHerbivores), TotalAgents(ManyHerbivores)}

\* agent_stats.mean_energy of a population with a alive agents, in thousandths
MeanEnergyOf(a) == IF a = 0 THEN 0 ELSE SpawnEnergy(1, StoreEnergy) * Milli

\* alive counts the next call may report: the population at the first call,
\* afterwards the count reported last or extinction
NextAlive ==
    IF samples = <<>> THEN Populations
    ELSE {samples[Len(samples)][1], 0}

\* what the metrics writer does not own
MetricsFrame == <<cfgv, step, current_step, use_a_as_src, front_is_a, cpu_alive,
                  gpuv, countv, obsv, ops, extinct, setup, parv, legv, extv, seedv,
                  statv, logv>>

\* MetricsWriter::new(..): empty histories
InitMetrics ==
    /\ driver = "metrics"
    /\ steps = MaxSteps
    /\ herbivores = 0
    /\ width = MaxSize
    /\ height = MaxSize
    /\ dt = MaxDt
    /\ scenario = "none"
    /\ pc = "metrics_writer"
    /\ setup = <<>>
    /\ rd_params_buffer = NoParams
    /\ agent_params_buffer = NoParams
    /\ step = 0
    /\ current_step = 0
    /\ use_a_as_src = TRUE
    /\ front_is_a = TRUE
    /\ tex = NewTextures
    /\ occupancy = {}
    /\ gpu_alive = 0
    /\ cpu_alive = 0
    /\ ops = <<>>
    /\ n_ticks = 0
    /\ n_agent = 0
    /\ n_rd = 0
    /\ n_swap = 0
    /\ agent_src = "-"
    /\ rd_src = "-"
    /\ rd_dst = "-"
    /\ rd_src_tex = Undefined
    /\ rd_occ = {}
    /\ dl_src = "-"
    /\ dl_front = "-"
    /\ extinct = FALSE
    /\ ul_dst = "-"
    /\ ul_front = "-"
    /\ ul_tick = 0
    /\ LegacyIdle
    /\ StoresIdle
    /\ failure = "none"
    /\ StatsIdle
    /\ MetricsIdle
    /\ LogsIdle
    /\ ViewIdle
    /\ MappedIdle

\* metrics_writer.write_step(step, &field_stats, &agent_stats, step_time)?:
\* both histories pushed and trimmed, the score computed, then the row written
\* and step_count raised, unless the csv write fails
MetricsWriteStep ==
    /\ driver = "metrics"
    /\ pc = "metrics_writer"
    /\ n_writes < MaxWrites
    /\ \E a \in NextAlive :
         /\ herbivore_history' = push_history(herbivore_history, a)
         /\ energy_history' = push_history(energy_history, MeanEnergyOf(a))
         /\ samples' = Append(samples, <<a, MeanEnergyOf(a)>>)
    /\ cycle_score' = compute_cycle_score(herbivore_history')
    /\ n_writes' = n_writes + 1
    /\ \E ok \in BOOLEAN :
         /\ step_count' = step_count_after(step_count, ok)
         /\ IF ok THEN pc' = pc /\ failure' = failure
                  ELSE pc' = "error" /\ failure' = "fatal"
    /\ UNCHANGED MetricsFrame

MetricsNext == MetricsWriteStep

SpecMetrics == InitMetrics /\ [][MetricsNext]_vars

\* ======================= properties ======================================
\* positions right after the reaction-diffusion pass of the current tick
AfterRd == pc \in {"flip", "clear_occupancy_buffer"}

\* positions between a reaction-diffusion pass and its swap
RdNotYetSwapped == pc \in {"flip", "clear_occupancy_buffer", "swap"}

\* positions between the agent pass and the reaction-diffusion pass
BeforeRd == pc \in {"occupancy_readback", "rd_pass", "run_rd_pass"}

\* positions at which the agent pass of the current tick is about to start
AgentPassStarts == pc \in {"agent_pass", "run_agent_pass"}

TickOrder == <<"params", "clear", "agent", "rd", "swap">>

\* C1: parity invariant. Starting with front = A, the front grid is A iff the
\* number of completed swaps is even; in the viewer front_is_a == (current_step
\* is even) between ticks, in the headless driver use_a_as_src == (number of
\* completed ticks is even); nothing but a swap (recreate included) changes it.
C1_Parity ==
    /\ (Front = "A") <=> (n_swap % 2 = 0)
    /\ (driver = "viewer" /\ pc \in {"idle", "render"})
          => (front_is_a <=> (current_step % 2 = 0))
    /\ (driver = "headless" /\ pc = "loop") => (use_a_as_src <=> (step % 2 = 0))
    /\ (driver = "headless" /\ pc = "done") => (use_a_as_src <=> (n_ticks % 2 = 0))

\* three swaps done and a recreate since the last write: front is B
C1_Witness ==
    /\ driver = "viewer"
    /\ pc = "idle"
    /\ n_swap = 3
    /\ ~front_is_a
    /\ tex["A"] = Undefined
    /\ tex["B"] = Undefined

\* C2: in every tick the reaction-diffusion pass reads the front grid and
\* writes the back grid, source and destination differ, and the source holds
\* what the previous tick's reaction-diffusion pass wrote (the seeded grid A in
\* the first tick).
C2_RdReadsFrontWritesBack ==
    AfterRd =>
        /\ rd_src = Front
        /\ rd_dst = Other(Front)
        /\ rd_src # rd_dst
        /\ rd_src_tex = IF Tick = 0 THEN Seeded ELSE RdOut(Tick - 1)

\* C3: swap is performed exactly once per completed reaction-diffusion pass:
\* after k ticks #swaps = #passes = k, no swap without a preceding pass, no
\* pass without the following swap.
C3_SwapOncePerRd ==
    /\ n_swap <= n_rd
    /\ n_rd <= n_swap + 1
    /\ (n_rd = n_swap + 1) <=> RdNotYetSwapped
    /\ (driver = "viewer" /\ pc \in {"idle", "render"})
          => (n_rd = current_step /\ n_swap = current_step)
    /\ (driver = "headless" /\ pc = "loop") => (n_rd = step /\ n_swap = step)
    /\ (driver = "headless" /\ pc = "done") => (n_rd = n_ticks /\ n_swap = n_ticks)

\* two ticks of the headless loop are done
C3_Witness ==
    /\ driver = "headless"
    /\ pc = "loop"
    /\ step = 2
    /\ n_rd = 2
    /\ n_swap = 2

\* C4: every tick of every driver issues, in this order: parameter push,
\* occupancy clear, agent pass, reaction-diffusion pass, swap.
C4_TickOrder ==
    /\ Len(ops) <= Len(TickOrder)
    /\ \A i \in 1..Len(ops) : ops[i] = TickOrder[i]

\* C5: in every tick the agent pass samples the grid that is front in that
\* tick, the grid the reaction-diffusion pass of the tick reads.
C5_AgentSamplesFront ==
    BeforeRd => agent_src = Front

\* C6: occupancy reset. When the agent pass of any tick starts, every
\* occupancy cell is 0: no deposit of an earlier tick is left.
C6_OccupancyReset ==
    AgentPassStarts => occupancy = {}

\* a later tick of the viewer, started after a resize
C6_Witness ==
    /\ driver = "viewer"
    /\ pc = "run_agent_pass"
    /\ current_step = 2
    /\ tex["A"] = Undefined
    /\ occupancy = {}

\* C7: within a tick the agent pass is submitted before the reaction-diffusion
\* pass and nothing writes the occupancy grid in between: the pass of tick t
\* reads exactly the deposits of the agent pass of tick t.
C7_RdReadsThisTicksOccupancy ==
    /\ BeforeRd => (occupancy = {Tick} /\ ops[Len(ops)] = "agent")
    /\ AfterRd => /\ rd_occ = {Tick}
                  /\ ops[Len(ops)] = "rd"
                  /\ ops[Len(ops) - 1] = "agent"

\* the reaction-diffusion pass of the third headless tick has read occupancy
C7_Witness ==
    /\ driver = "headless"
    /\ pc = "flip"
    /\ step = 2
    /\ rd_occ = {2}

\* C8: a headless run with step count N that does not end on extinction runs
\* exactly N ticks: N agent passes, N reaction-diffusion passes, N swaps.
C8_ExactlyNTicks ==
    (driver = "headless" /\ pc = "done" /\ ~extinct)
        => (n_ticks = steps /\ n_agent = steps /\ n_rd = steps /\ n_swap = steps)

\* C9: the headless run ends on extinction: the tick in which the agent
\* kernel leaves no agent alive is the last tick, no later tick starts.
C9_StopsOnExtinction ==
    (driver = "headless" /\ pc = "write_params" /\ step > 0) => gpu_alive > 0

\* C10: every field download for metrics or snapshots copies the grid that is
\* front at the moment of the download, never the back grid.
C10_DownloadsFront ==
    dl_src = dl_front

\* C11: uploading a field writes the grid that is front at the time of the
\* call, whatever the parity, and the next tick's passes read the uploaded
\* field: a re-seed made after any number of ticks is what the next
\* reaction-diffusion pass reads.
C11_UploadWritesFront ==
    /\ ul_dst = ul_front
    /\ (driver = "legacy" /\ pc = "l_flip" /\ ul_tick = n_ticks)
          => rd_src_tex = Uploaded(ul_tick)

\* C12: no agent pass, reaction-diffusion pass or download reads a field grid
\* whose contents are undefined (never uploaded, never written by a completed
\* reaction-diffusion pass since its allocation); after a resize of the
\* viewer the front grid is reseeded before the next tick reads it.
C12_NoUndefinedRead ==
    /\ BeforeRd => tex[agent_src].writer # "none"
    /\ AfterRd => rd_src_tex.writer # "none"
    /\ (pc \in {"snapshot", "extinction_check"} /\ dl_src # "-")
          => tex[dl_src].writer # "none"

\* C13: no compute pass of any driver writes the grid that is front at that
\* time: kernel writes target only the back grid, and the grid a pass samples
\* in a tick is not written by any pass of the same tick.
C13_NoWriteToFront ==
    /\ (pc \in {"flip", "clear_occupancy_buffer", "l_flip"}) => rd_dst # Front
    /\ (em_dst # "-") => em_dst # em_front
    /\ (pc \in {"flip", "clear_occupancy_buffer", "l_emissions"})
          => agent_src # rd_dst

\* C14: in every tick the agent kernel is dispatched with at least as many
\* invocations as there are agents in the agent buffer (3 times the
\* configured herbivore count), so every agent is processed each tick.
C14_DispatchCoversAgents ==
    (n_agent > 0) =>
        /\ AgentWorkgroups(herbivores) * AGENT_WORKGROUP >= TotalAgents(herbivores)
        /\ AgentsCovered(herbivores) = TotalAgents(herbivores)

\* the start-up step x has been performed
InSetup(x) == \E i \in 1..Len(setup) : setup[i] = x

\* C15: for any configuration with width < 32 or height < 32 or steps == 0
\* or dt <= 0 the headless driver ends with a fatal error before the output
\* directory is created, before the GPU is initialised and before any kernel
\* is dispatched; a configuration meeting all four conditions is not rejected.
C15_FailFast ==
    (driver = "headless" /\ pc # "validate") =>
        IF width < 32 \/ height < 32 \/ steps = 0 \/ dt <= 0
          THEN /\ pc = "config_error"
               /\ ~InSetup("create_dir")
               /\ ~InSetup("init_gpu")
               /\ n_agent = 0
               /\ n_rd = 0
          ELSE pc # "config_error"

\* a run rejected for its time step alone
C15_Witness ==
    /\ driver = "headless"
    /\ pc = "config_error"
    /\ width >= 32
    /\ height >= 32
    /\ steps > 0
    /\ dt = 0
    /\ setup = <<"validate_config">>

\* C16: when the two parameter records are constructed the mapper checks
\* that the shared constants (H_SCALE, world size) agree, before any kernel
\* executes; a disagreement is a fatal configuration error, never a silent
\* continue.
C16_SharedConstantsChecked ==
    /\ (n_agent > 0 \/ n_rd > 0) => InSetup("validate_params")
    /\ (n_agent > 0 \/ n_rd > 0) =>
          /\ validate_rd_params(rd_params_buffer)
          /\ validate_agent_params(agent_params_buffer, Config.size)

\* the two uniform buffers hold records
ParamsPushed == rd_params_buffer # NoParams /\ agent_params_buffer # NoParams

\* C17: for every configuration the two records of the mapper agree on the
\* shared constants: RDParams.size is config.world.size, AgentParams.size is
\* that size converted to float, both dt fields are config.world.dt, and
\* H_SCALE is 0.125 (125 thousandths) in both mapper implementations, so both
\* drivers receive identical shared constants.
C17_SharedConstantsAgree ==
    /\ core_RDParams_from(Config).H_SCALE = 125
    /\ params_RDParams_from(Config).H_SCALE = 125
    /\ core_RDParams_from(Config).size = params_RDParams_from(Config).size
    /\ core_RDParams_from(Config).dt = params_RDParams_from(Config).dt
    /\ core_AgentParams_from(Config).size = params_AgentParams_from(Config).size
    /\ core_AgentParams_from(Config).dt = params_AgentParams_from(Config).dt
    /\ ParamsPushed =>
          /\ rd_params_buffer.size = <<width, height>>
          /\ agent_params_buffer.size = <<ToF32(width), ToF32(height)>>
          /\ rd_params_buffer.dt = dt
          /\ agent_params_buffer.dt = dt
          /\ rd_params_buffer.H_SCALE = 125

\* the headless driver has pushed its records in a debug scenario
C17_Witness ==
    /\ driver = "headless"
    /\ pc = "zero_occupancy"
    /\ scenario = "debug"
    /\ step = 1
    /\ rd_params_buffer.H_SCALE = 125
    /\ rd_params_buffer.size = <<32, 64>>
    /\ agent_params_buffer.size = <<32, 64>>

\* positions right after the parameter push of the current tick
ParamsJustPushed == pc \in {"zero_occupancy", "run_agent_pass"}

\* C18 (as claimed): at the start of every tick each driver pushes records
\* equal to the mapper's output for the configuration as it is at that tick.
C18_PushedEqualsMapping ==
    ParamsJustPushed =>
        /\ rd_params_buffer = params_RDParams_from(Config)
        /\ agent_params_buffer = params_AgentParams_from(Config)

\* C18 (amended): at the start of every tick the pushed records carry the
\* mapper's shared constants and, for the coefficients, the mapper's values
\* unless the headless driver was started with --debug-scenario or
\* --scenario: then the reaction-diffusion record carries the reaction-only
\* (also for --debug-scenario alone), diffusion-only or uptake-only
\* overrides and the agent record the damping-only overrides (also for
\* --debug-scenario alone).
C18_PushedIsMappingWithOverrides ==
    ParamsJustPushed =>
        /\ [rd_params_buffer EXCEPT !.coeffs = "config"]
              = params_RDParams_from(Config)
        /\ [agent_params_buffer EXCEPT !.coeffs = "config"]
              = params_AgentParams_from(Config)
        /\ rd_params_buffer.coeffs =
              CASE scenario \in {"debug", "reaction-only"} -> "reaction-only"
                [] scenario = "diffusion-only" -> "diffusion-only"
                [] scenario = "uptake-only" -> "uptake-only"
                [] OTHER -> "config"
        /\ agent_params_buffer.coeffs =
              IF scenario \in {"debug", "damping-only"} THEN "damping-only"
                                                        ELSE "config"

\* the second tick of an uptake-only run has pushed its records
C18_Witness ==
    /\ driver = "headless"
    /\ pc = "zero_occupancy"
    /\ step = 1
    /\ scenario = "uptake-only"
    /\ rd_params_buffer.coeffs = "uptake-only"
    /\ agent_params_buffer.coeffs = "config"

\* positions at which no reaction-diffusion pass is waiting for its swap
TickBoundary == ~RdNotYetSwapped

\* C19 (as claimed): a tick is atomic: every tick that submits its
\* reaction-diffusion pass performs its swap before the next tick begins or
\* the run ends, and if any step of a tick fails the run aborts instead of
\* starting another tick.
C19_TickAtomicOrAbort ==
    /\ TickBoundary => n_rd = n_swap
    /\ (failure # "none") => pc = "error"

\* C19 (amended): every submitted reaction-diffusion pass is followed by its
\* swap before the next tick begins or the run ends, also when the run
\* aborts; a failed metrics or snapshot write aborts the headless run, while
\* a failed occupancy image and a failed render are reported and the run goes
\* on.
C19_SwapAtomicFatalAborts ==
    /\ TickBoundary => n_rd = n_swap
    /\ (failure = "fatal") => pc = "error"
    /\ (pc = "error" /\ failure = "fatal") => n_rd = n_ticks + 1

\* the metrics write of the first tick failed, after its swap
C19_Witness ==
    /\ driver = "headless"
    /\ pc = "error"
    /\ failure = "fatal"
    /\ n_rd = 1
    /\ n_swap = 1
    /\ n_ticks = 0

KindCount(ag, k) == Cardinality({i \in DOMAIN ag : ag[i].kind = k})

\* C21: after reset the population is the one AgentManager::new produces
\* under the same rules: a manager built from herbivore count c still holds
\* 3c agents with the same per-kind counts after reset, and repeated resets
\* never change the population size.
C21_ResetRederives ==
    (agent_call.op = "reset") =>
        /\ pc = "manager"
        /\ Len(agents) = Len(agent_call.before)
        /\ Len(agents) = TotalAgents(seed_args.agent_count)
        /\ \A k \in 0..2 : KindCount(agents, k) = KindCount(agent_call.before, k)

\* C22: for every herbivore count c, AgentManager::new creates exactly 3c
\* agents: floor(3c/6) plants, floor(3c/6) predators and the rest herbivores,
\* stored in the order plants, herbivores, predators, all alive; plants have
\* zero velocity and 1.5 times the initial energy.
C22_NewCreatesThreeC ==
    (agent_call.op = "new") =>
        LET c == seed_args.agent_count
            p == (3 * c) \div 6
        IN /\ Len(agents) = 3 * c
           /\ KindCount(agents, 0) = p
           /\ KindCount(agents, 2) = p
           /\ KindCount(agents, 1) = 3 * c - 2 * p
           /\ \A i, j \in DOMAIN agents : i < j => agents[i].kind <= agents[j].kind
           /\ \A i \in DOMAIN agents :
                /\ agents[i].alive
                /\ agents[i].kind = 0 =>
                     /\ agents[i].vel = <<0, 0>>
                     /\ 10 * agents[i].energy = 15 * SpawnEnergy(1, StoreEnergy)

\* the agents of ag whose alive flag is set, by index
AliveSet(ag) == {i \in DOMAIN ag : ag[i].alive}

RECURSIVE EnergyOver(_, _)
\* sum of the energy of the agents of ag with an index in S
EnergyOver(ag, S) ==
    IF S = {} THEN 0
    ELSE LET i == CHOOSE j \in S : TRUE
         IN ag[i].energy + EnergyOver(ag, S \ {i})

RECURSIVE SpeedOver(_, _)
\* sum of the speed of the agents of ag with an index in S
SpeedOver(ag, S) ==
    IF S = {} THEN 0
    ELSE LET i == CHOOSE j \in S : TRUE
         IN ag[i].vel[2] + SpeedOver(ag, S \ {i})

\* C23: stats-on-empty. Whenever no agent is alive (all flags cleared, or an
\* empty agent array), update_stats sets alive_count, total_energy,
\* mean_energy, mean_velocity and foraging_efficiency all to zero, also when
\* the previous statistics were non-zero; no division by zero occurs.
C23_StatsOnEmpty ==
    (agent_call.op = "update_stats" /\ AliveSet(agents) = {}) =>
        /\ stats.alive_count = 0
        /\ stats.total_energy = 0
        /\ stats.mean_energy = 0
        /\ stats.mean_velocity = 0
        /\ stats.foraging_efficiency = 0

\* three agents, statistics taken, all three killed, statistics taken again
C23_Witness ==
    /\ agent_call.op = "update_stats"
    /\ Len(agents) = 3
    /\ AliveSet(agents) = {}
    /\ agent_call.stats_before.alive_count = 3
    /\ agent_call.stats_before.total_energy > 0
    /\ stats = AgentStats_default

\* C24: agent statistics cover alive agents only. After update_stats,
\* alive_count equals get_alive_count, total_energy is the sum of energy over
\* the agents with the alive flag set, dead agents contribute to no
\* statistic, and foraging_efficiency is mean_energy / mean_velocity when
\* mean_velocity > 0 and 0 otherwise.
C24_StatsCoverAlive ==
    (agent_call.op = "update_stats") =>
        LET A == AliveSet(agents)
            n == Cardinality(A)
        IN /\ stats.alive_count = n
           /\ stats.alive_count = get_alive_count(agents)
           /\ stats.total_energy = EnergyOver(agents, A)
           /\ n > 0 => /\ stats.mean_energy = (EnergyOver(agents, A) * Milli) \div n
                       /\ stats.mean_velocity = (SpeedOver(agents, A) * Milli) \div n
           /\ stats.foraging_efficiency =
                IF stats.mean_velocity > 0
                  THEN (stats.mean_energy * Milli) \div stats.mean_velocity
                  ELSE 0

\* statistics taken with one agent dead and two moving agents alive
C24_Witness ==
    /\ agent_call.op = "update_stats"
    /\ Len(agents) = 3
    /\ Cardinality(AliveSet(agents)) = 2
    /\ stats.alive_count = 2
    /\ stats.total_energy = 2 * SpawnEnergy(1, StoreEnergy)
    /\ stats.foraging_efficiency > 0

\* C30: death is a flag flip. Agent::kill changes only the alive flag and
\* leaves position, velocity, energy and kind unchanged, and no operation
\* other than AgentManager::new and reset changes the length of the agent
\* array (update_stats and get_alive_count leave the agents unchanged).
C30_DeathIsFlagFlip ==
    /\ (agent_call.op = "kill") =>
          /\ DOMAIN agents = DOMAIN agent_call.before
          /\ \A i \in DOMAIN agents :
               /\ agents[i].kind = agent_call.before[i].kind
               /\ agents[i].x = agent_call.before[i].x
               /\ agents[i].y = agent_call.before[i].y
               /\ agents[i].vel = agent_call.before[i].vel
               /\ agents[i].energy = agent_call.before[i].energy
               /\ agents[i].alive =
                    (agent_call.before[i].alive /\ i # agent_call.index)
    /\ (agent_call.op \in {"update_stats", "get_alive_count"}) =>
          agents = agent_call.before
    /\ (Len(agents) # Len(agent_call.before)) => agent_call.op \in {"new", "reset"}

\* a living agent with energy was killed: it is still in the array, dead,
\* with the energy it had
C30_Witness ==
    /\ agent_call.op = "kill"
    /\ agent_call.before[agent_call.index].alive
    /\ ~agents[agent_call.index].alive
    /\ agents[agent_call.index].energy > 0
    /\ Len(agents) = 6

\* the interior cells of the grid
InteriorCells == {i \in Cells : Interior(i)}

RECURSIVE GradOver(_, _)
\* sum of twice the gradient magnitude over the cells in S
GradOver(g, S) ==
    IF S = {} THEN 0
    ELSE LET i == CHOOSE j \in S : TRUE
         IN GradMag2(g, i) + GradOver(g, S \ {i})

\* C25: boundary exclusion. mean_grad_R is the average of the
\* central-difference gradient magnitude over interior cells only: the sum
\* over the cells with 0 < x < w-1 and 0 < y < h-1 divided by the number of
\* those interior cells; the one-cell border adds nothing to the sum and is
\* not counted in the divisor.
C25_GradientOverInterior ==
    (field_call = "update_stats" /\ InteriorCells # {}) =>
        field_stats.mean_grad_R =
            Ratio(GradOver(data, InteriorCells), 2 * Cardinality(InteriorCells))

\* C28: after seed_resources every cell has a finite resource value >= 0 and
\* waste 0, and at least one cell has resource > 0.
C28_SeededGridSane ==
    (field_call = "seed_resources") =>
        /\ \A i \in Cells : data[i].R >= 0 /\ data[i].W = 0
        /\ \E i \in Cells : data[i].R > 0

\* a grid that held waste was seeded: the waste is gone, the centre holds at
\* least the centre source, and a cell the ramp pulls below zero holds zero
C28_Witness ==
    /\ field_call = "seed_resources"
    /\ seed_args.before # <<>>
    /\ \E i \in Cells : seed_args.before[i].W > 0
    /\ data[CenterCell].R >= AMP_CENTER
    /\ \E i \in Cells : data[i].R = 0

\* the last n entries of the sequence s
LastN(s, n) == SubSeq(s, Len(s) - n + 1, Len(s))

\* C26: after any sequence of write_step calls the alive-count history and
\* the mean-energy history each hold at most 200 entries, have equal length,
\* and hold the most recent min(k, 200) samples in arrival order, where k is
\* the number of calls.
C26_BoundedHistory ==
    LET k == Len(samples)
        n == Min(k, HISTORY_CAP)
    IN /\ k = n_writes
       /\ Len(herbivore_history) <= HISTORY_CAP
       /\ Len(energy_history) <= HISTORY_CAP
       /\ Len(herbivore_history) = Len(energy_history)
       /\ herbivore_history = [i \in 1..n |-> LastN(samples, n)[i][1]]
       /\ energy_history = [i \in 1..n |-> LastN(samples, n)[i][2]]

\* more than 200 calls were made, the oldest sample kept differs from the
\* first sample ever pushed
C26_Witness ==
    /\ driver = "metrics"
    /\ n_writes > HISTORY_CAP + 1
    /\ Len(herbivore_history) = HISTORY_CAP
    /\ samples[1][1] > 0
    /\ herbivore_history[1] = 0
    /\ energy_history[HISTORY_CAP] = 0

RECURSIVE LagDiffs(_, _)
\* sum over the lags 1..n of |newest - the sample that many entries earlier|
LagDiffs(h, n) ==
    IF n = 0 THEN 0
    ELSE LagDiffs(h, n - 1) + Abs(h[Len(h)] - h[Len(h) - n])

\* C27: the cycle score written with a sample is 0 while fewer than 50
\* samples (the current one included) are in the history; once 50 or more
\* exist it equals min(1, m/100), where m is the mean over lags 1..20 of the
\* absolute difference between the newest alive count and the alive count
\* that many samples earlier; it is within [0,1] for every history.
C27_CycleScore ==
    (n_writes > 0) =>
        /\ Len(herbivore_history) < CYCLE_MIN_SAMPLES => cycle_score = 0
        /\ Len(herbivore_history) >= CYCLE_MIN_SAMPLES =>
             cycle_score =
                Min(Milli, (LagDiffs(herbivore_history, CYCLE_WINDOW) * Milli)
                               \div (CYCLE_WINDOW * CYCLE_NORM))
        /\ cycle_score >= 0
        /\ cycle_score <= Milli

\* a score strictly between 0 and 1 on a history of 50 samples or more
C27_Witness ==
    /\ driver = "metrics"
    /\ Len(herbivore_history) >= CYCLE_MIN_SAMPLES
    /\ cycle_score > 0
    /\ cycle_score < Milli

\* a clipped score: the mean difference exceeds 100
C27_WitnessClipped ==
    /\ driver = "metrics"
    /\ Len(herbivore_history) >= CYCLE_MIN_SAMPLES
    /\ cycle_score = Milli
    /\ LagDiffs(herbivore_history, CYCLE_WINDOW) > CYCLE_WINDOW * CYCLE_NORM

\* ======================= a full-length headless run =======================
\* the headless driver with the default step count of the scenario runs, so
\* that every milestone and every metrics tick is reached
InitLongRun ==
    /\ driver = "headless"
    /\ steps = MaxLongSteps
    /\ herbivores \in {0, 1}
    /\ width = MaxSize
    /\ height = MaxSize
    /\ dt = MaxDt
    /\ scenario \in {"none", "debug"}
    /\ pc = "validate"
    /\ setup = <<>>
    /\ rd_params_buffer = NoParams
    /\ agent_params_buffer = NoParams
    /\ step = 0
    /\ current_step = 0
    /\ use_a_as_src = TRUE
    /\ front_is_a = TRUE
    /\ tex = NewTextures
    /\ occupancy = {}
    /\ gpu_alive = 0
    /\ cpu_alive = 0
    /\ ops = <<>>
    /\ n_ticks = 0
    /\ n_agent = 0
    /\ n_rd = 0
    /\ n_swap = 0
    /\ agent_src = "-"
    /\ rd_src = "-"
    /\ rd_dst = "-"
    /\ rd_src_tex = Undefined
    /\ rd_occ = {}
    /\ dl_src = "-"
    /\ dl_front = "-"
    /\ extinct = FALSE
    /\ ul_dst = "-"
    /\ ul_front = "-"
    /\ ul_tick = 0
    /\ LegacyIdle
    /\ StoresIdle
    /\ failure = "none"
    /\ StatsIdle
    /\ MetricsIdle
    /\ LogsIdle
    /\ ViewIdle
    /\ MappedIdle

SpecLongRun == InitLongRun /\ [][HeadlessNext]_vars

\* the last tick that is past a stage: the current one once `passed` holds,
\* the one before otherwise
LastPassed(passed) == IF passed THEN step ELSE step - 1

\* the ticks a field image and an agent table are due at
Milestones == {0, MILESTONE_1, MILESTONE_2, MILESTONE_3}

\* the elements of a sequence
Range(q) == {q[i] : i \in DOMAIN q}

\* C29: in the headless run a metrics row is written at exactly the reached
\* ticks whose index is a multiple of 50, in increasing step order and at
\* most once per tick; a field image and an agent table are written at
\* exactly the reached ticks 0, 200, 1000 and 2000; no other tick downloads
C29_Cadence ==
    driver = "headless" =>
      LET metrics_passed == pc \in {"snapshot", "extinction_check"} \/ extinct
          snapshot_passed == pc = "extinction_check" \/ extinct
          due_rows == {k * METRICS_EVERY :
                         k \in 0..(LastPassed(metrics_passed) \div METRICS_EVERY)}
          due_shots == {t \in Milestones : t <= LastPassed(snapshot_passed)}
      IN /\ \A i \in 1..(Len(metric_rows) - 1) : metric_rows[i] < metric_rows[i + 1]
         /\ \A t \in Range(metric_rows) : t % METRICS_EVERY = 0
         /\ field_images \cup agent_tables \subseteq Milestones
         /\ agent_tables \subseteq field_images
         /\ pc # "error" => /\ Range(metric_rows) = due_rows
                            /\ field_images = due_shots
                            /\ agent_tables = due_shots
         /\ pc = "error" => /\ {t \in due_rows : t < step} \subseteq Range(metric_rows)
                            /\ {t \in due_shots : t < step} \subseteq agent_tables
         /\ \A t \in download_ticks :
              t % METRICS_EVERY = 0 \/ t \in Milestones

\* the run has passed its last milestone under --debug-scenario: 41 rows and
\* four images and tables
C29_Witness ==
    /\ driver = "headless"
    /\ scenario = "debug"
    /\ step = MILESTONE_3
    /\ pc = "extinction_check"
    /\ Len(metric_rows) = (MILESTONE_3 \div METRICS_EVERY) + 1
    /\ field_images = Milestones
    /\ agent_tables = Milestones
    /\ MILESTONE_3 - DEBUG_EVERY \in download_ticks

\* ======================= the viewer with its keyboard =====================
\* the interactive driver of one configuration, with key presses between
\* frames
InitKeys ==
    /\ driver = "viewer"
    /\ steps = MaxSteps
    /\ herbivores = MaxHerbivores
    /\ width = MaxSize
    /\ height = MaxSize
    /\ dt = MaxDt
    /\ scenario = "none"
    /\ pc = "idle"
    /\ setup = ViewerNewSteps
    /\ rd_params_buffer = params_RDParams_from(Config)
    /\ agent_params_buffer = params_AgentParams_from(Config)
    /\ step = 0
    /\ current_step = 0
    /\ use_a_as_src = TRUE
    /\ front_is_a = TRUE
    /\ tex = upload_field_data(NewTextures)
    /\ occupancy = {}
    /\ gpu_alive = TotalAgents(herbivores)
    /\ cpu_alive = TotalAgents(herbivores)
    /\ ops = <<>>
    /\ n_ticks = 0
    /\ n_agent = 0
    /\ n_rd = 0
    /\ n_swap = 0
    /\ agent_src = "-"
    /\ rd_src = "-"
    /\ rd_dst = "-"
    /\ rd_src_tex = Undefined
    /\ rd_occ = {}
    /\ dl_src = "-"
    /\ dl_front = "-"
    /\ extinct = FALSE
    /\ ul_dst = "A"
    /\ ul_front = "A"
    /\ ul_tick = 0
    /\ LegacyIdle
    /\ StoresIdle
    /\ failure = "none"
    /\ StatsIdle
    /\ MetricsIdle
    /\ LogsIdle
    /\ ViewIdle
    /\ MappedIdle

KeysNext == ViewerNext \/ ViewerHandleKey

SpecKeys == InitKeys /\ [][KeysNext]_vars

\* what the frames of the viewer compute from and on: configuration, step
\* counter, parity, uniform buffers, grids, occupancy, agents and the stores
SimulationState ==
    <<cfgv, parv, current_step, front_is_a, use_a_as_src, gpuv, cpu_alive,
      countv, seedv, pc, ops>>

\* C31: a step that changes an overlay flag or the scenario mode leaves the
\* configuration, the step counter, the parity and the agent and field stores
\* unchanged: key presses never influence the simulation state
C31_KeysLeaveSimulation ==
    [][viewv' # viewv => UNCHANGED SimulationState]_vars

\* a run of at least one frame in which an overlay was switched and a
\* scenario mode chosen
C31_Witness ==
    /\ driver = "viewer"
    /\ current_step > 0
    /\ show_gradients
    /\ ~show_r_field
    /\ scenario_mode = "flat"

\* C32: at every sampled tick of the headless run the agent statistics handed
\* to the metrics writer describe the agents as the agent kernel left them in
\* that tick: the alive count of the sample is the number of alive flags set
\* in the GPU agent buffer
C32_StatsDescribeKernelAgents ==
    (driver = "headless" /\ pc = "snapshot" /\ MetricsDue(step))
        => samples[Len(samples)][1] = gpu_alive

\* ======================= the headless scenario parameters =================
\* main.rs 98-164: the two mapped records, their debug copies with the
\* overrides of the scenario, and the uniform buffers created from the copies;
\* coefficients in thousandths
CoeffValues == {0, 300}

\* config.field
FieldConfigs ==
    [D_R : CoeffValues, D_W : CoeffValues, sigma_R : CoeffValues,
     alpha_H : CoeffValues, beta_H : CoeffValues, lambda_R : CoeffValues,
     lambda_W : CoeffValues]

\* config.chemotaxis
ChemotaxisConfigs ==
    [chi_R : CoeffValues, chi_W : CoeffValues, kappa : CoeffValues,
     gamma : CoeffValues, v_max : CoeffValues, eps0 : CoeffValues,
     eta_R : CoeffValues]

\* vireo-core sim/params.rs: RDParams::from(&config), every field
RDParams_from(c, field) ==
    [D_R |-> field.D_R, D_W |-> field.D_W, sigma_R |-> field.sigma_R,
     alpha_H |-> field.alpha_H, beta_H |-> field.beta_H,
     lambda_R |-> field.lambda_R, lambda_W |-> field.lambda_W,
     dt |-> c.dt, size |-> c.size, H_SCALE |-> CORE_H_SCALE, _pad |-> 0]

\* vireo-core sim/params.rs: AgentParams::from(&config), every field
AgentParams_from(c, chemotaxis) ==
    [chi_R |-> chemotaxis.chi_R, chi_W |-> chemotaxis.chi_W,
     kappa |-> chemotaxis.kappa, gamma |-> chemotaxis.gamma,
     v_max |-> chemotaxis.v_max, eps0 |-> chemotaxis.eps0,
     eta_R |-> chemotaxis.eta_R, dt |-> c.dt,
     size |-> <<ToF32(c.size[1]), ToF32(c.size[2])>>, _pad |-> <<0, 0>>]

\* scenario arms that clear every coefficient they do not raise
scenario_rd_params_cleared(sc, p) ==
    CASE sc \in {"reaction-only", "debug"} ->
           [p EXCEPT !.D_R = 0, !.D_W = 0, !.lambda_R = 0, !.lambda_W = 0,
                     !.alpha_H = 0, !.beta_H = 0, !.sigma_R = SIGMA_R_HIGH]
      [] sc = "diffusion-only" ->
           [p EXCEPT !.sigma_R = 0, !.lambda_R = 0, !.lambda_W = 0,
                     !.alpha_H = 0, !.beta_H = 0, !.D_R = D_R_HIGH]
      [] sc = "uptake-only" ->
           [p EXCEPT !.sigma_R = 0, !.alpha_H = ALPHA_H_HIGH, !.D_R = 0,
                     !.D_W = 0]
      [] OTHER -> p

\* debug_rd_params after the match on cli.scenario: "debug" is the flag
\* without a scenario (arm None), "none" neither flag nor scenario
scenario_rd_params(sc, p) ==
    CASE sc \in {"reaction-only", "debug"} ->
           [p EXCEPT !.D_R = 0, !.D_W = 0, !.lambda_R = 0, !.lambda_W = 0,
                     !.alpha_H = 0, !.sigma_R = SIGMA_R_HIGH]
      [] sc = "diffusion-only" ->
           [p EXCEPT !.sigma_R = 0, !.lambda_R = 0, !.alpha_H = 0,
                     !.D_R = D_R_HIGH]
      [] sc = "uptake-only" ->
           [p EXCEPT !.sigma_R = 0, !.alpha_H = ALPHA_H_HIGH, !.D_R = 0]
      [] OTHER -> p

\* debug_agent_params after the match on cli.scenario
scenario_agent_params(sc, p) ==
    IF sc \in {"damping-only", "debug"}
      THEN [p EXCEPT !.chi_R = 0, !.chi_W = 0, !.gamma = GAMMA_HIGH]
      ELSE p

\* a headless main about to map its configuration
InitScenarios ==
    /\ driver = "headless"
    /\ steps = MaxSteps
    /\ herbivores = MaxHerbivores
    /\ width = MaxSize
    /\ height = MaxSize
    /\ dt = MaxDt
    /\ scenario \in Scenarios
    /\ pc = "map_params"
    /\ setup = <<"seed", "textures", "upload">>
    /\ rd_params_buffer = NoParams
    /\ agent_params_buffer = NoParams
    /\ step = 0
    /\ current_step = 0
    /\ use_a_as_src = TRUE
    /\ front_is_a = TRUE
    /\ tex = upload_field_data(NewTextures)
    /\ occupancy = {}
    /\ gpu_alive = 0
    /\ cpu_alive = TotalAgents(herbivores)
    /\ ops = <<>>
    /\ n_ticks = 0
    /\ n_agent = 0
    /\ n_rd = 0
    /\ n_swap = 0
    /\ agent_src = "-"
    /\ rd_src = "-"
    /\ rd_dst = "-"
    /\ rd_src_tex = Undefined
    /\ rd_occ = {}
    /\ dl_src = "-"
    /\ dl_front = "-"
    /\ extinct = FALSE
    /\ ul_dst = "A"
    /\ ul_front = "A"
    /\ ul_tick = 0
    /\ LegacyIdle
    /\ StoresIdle
    /\ failure = "none"
    /\ StatsIdle
    /\ MetricsIdle
    /\ LogsIdle
    /\ ViewIdle
    /\ MappedIdle

\* let rd_params = RDParams::from(&config); let agent_params = ..; the debug
\* copies with the overrides; create_rd_params_buffer(&debug_rd_params),
\* create_agent_params_buffer(&debug_agent_params)
ScenarioMapParams ==
    /\ driver = "headless"
    /\ pc = "map_params"
    /\ pc' = "buffers"
    /\ setup' = setup \o <<"map_params", "buffers">>
    /\ \E field \in FieldConfigs, chemotaxis \in ChemotaxisConfigs :
         /\ rd_params' = RDParams_from(Config, field)
         /\ agent_params' = AgentParams_from(Config, chemotaxis)
         /\ rd_params_buffer' = scenario_rd_params(scenario, rd_params')
         /\ agent_params_buffer' = scenario_agent_params(scenario, agent_params')
    /\ UNCHANGED <<cfgv, legv, seedv, failure, newv, viewv, sample_spans,
                   half_data, step,
                   current_step,
                   use_a_as_src, front_is_a, cpu_alive, gpuv, countv, obsv, ops,
                   extinct>>

ScenariosNext == ScenarioMapParams

SpecScenarios == InitScenarios /\ [][ScenariosNext]_vars

\* the fields of the RDParams record a scenario names, with their values
NamedRd(sc) ==
    CASE sc = "reaction-only" ->
           [D_R |-> 0, D_W |-> 0, lambda_R |-> 0, lambda_W |-> 0, alpha_H |-> 0,
            sigma_R |-> SIGMA_R_HIGH]
      [] sc = "diffusion-only" ->
           [sigma_R |-> 0, lambda_R |-> 0, alpha_H |-> 0, D_R |-> D_R_HIGH]
      [] sc = "uptake-only" -> [sigma_R |-> 0, D_R |-> 0, alpha_H |-> ALPHA_H_HIGH]
      [] OTHER -> <<>>

\* the fields of the AgentParams record a scenario names, with their values
NamedAgent(sc) ==
    IF sc = "damping-only" THEN [chi_R |-> 0, chi_W |-> 0, gamma |-> GAMMA_HIGH]
    ELSE <<>>

\* record `after` is record `before` but for the fields of `named`
OnlyNamed(before, after, named) ==
    /\ DOMAIN after = DOMAIN before
    /\ \A f \in DOMAIN before :
         after[f] = IF f \in DOMAIN named THEN named[f] ELSE before[f]

\* C33: each headless test scenario changes only the parameters it names, to
\* the values it names, and leaves every other field of both records as the
\* mapper produced it; H_SCALE, size and dt stay in every scenario and under
\* the debug flag; without scenario or flag the records are not modified
C33_ScenarioOverrides ==
    (driver = "headless" /\ pc = "buffers") =>
       /\ scenario # "debug" =>
            /\ OnlyNamed(rd_params, rd_params_buffer, NamedRd(scenario))
            /\ OnlyNamed(agent_params, agent_params_buffer, NamedAgent(scenario))
       /\ rd_params_buffer.H_SCALE = rd_params.H_SCALE
       /\ rd_params_buffer.size = rd_params.size
       /\ rd_params_buffer.dt = rd_params.dt
       /\ agent_params_buffer.size = agent_params.size
       /\ agent_params_buffer.dt = agent_params.dt
       /\ scenario = "none" => /\ rd_params_buffer = rd_params
                               /\ agent_params_buffer = agent_params

\* the uptake-only scenario on a configuration with replenishment, diffusion
\* and the coefficients the scenario does not name all switched on
C33_Witness ==
    /\ driver = "headless"
    /\ pc = "buffers"
    /\ scenario = "uptake-only"
    /\ rd_params.sigma_R > 0
    /\ rd_params.D_R > 0
    /\ rd_params.D_W > 0
    /\ rd_params.beta_H > 0
    /\ rd_params.lambda_R > 0
    /\ rd_params_buffer.sigma_R = 0
    /\ rd_params_buffer.alpha_H = ALPHA_H_HIGH
    /\ agent_params.gamma > 0

\* ======================= the sampling intervals of seed_resources ==========
\* seed_resources on a FieldManager of any small size: the intervals it hands
\* to gen_range, in hundredths of a pixel (the grid contents it writes are
\* modelled on the GridW x GridH store above)
Max(a, b) == IF a > b THEN a ELSE b

\* a span_pct without its degenerate case
span_pct_unguarded(size, lo_pct, hi_pct) ==
    <<size * Max(Min(lo_pct, hi_pct), 0), size * Min(Max(hi_pct, lo_pct), 100)>>

\* FieldManager::span_pct(size, lo_pct, hi_pct), percentages in percent
span_pct(size, lo_pct, hi_pct) ==
    LET lo == size * Max(Min(lo_pct, hi_pct), 0)
        hi == size * Min(Max(hi_pct, lo_pct), 100)
    IN IF hi <= lo THEN <<50 * size - 100, 50 * size + 100>>
                   ELSE <<lo, hi>>

\* the ranges seed_resources samples from, in the order of their first use
seed_sample_spans(w, h) ==
    <<span_pct(w, CLUSTER_LO_PCT, CLUSTER_HI_PCT),
      span_pct(h, CLUSTER_LO_PCT, CLUSTER_HI_PCT),
      <<CLUSTER_AMP_LO, CLUSTER_AMP_HI>>,
      span_pct(w, SOURCE_LO_PCT, SOURCE_HI_PCT),
      span_pct(h, SOURCE_LO_PCT, SOURCE_HI_PCT),
      <<SOURCE_AMP_LO, SOURCE_AMP_HI>>,
      <<0, TAU>>>>

\* rng.gen_range(lo..hi) panics on an empty range
gen_range_panics(span) == span[1] >= span[2]

\* FieldManager::new(size) for every size up to MaxSpanSize
InitSpans ==
    /\ driver = "seeding"
    /\ steps = MaxSteps
    /\ herbivores = 0
    /\ width \in 0..MaxSpanSize
    /\ height \in 0..MaxSpanSize
    /\ dt = MaxDt
    /\ scenario = "none"
    /\ pc = "field_manager"
    /\ setup = <<>>
    /\ rd_params_buffer = NoParams
    /\ agent_params_buffer = NoParams
    /\ step = 0
    /\ current_step = 0
    /\ use_a_as_src = TRUE
    /\ front_is_a = TRUE
    /\ tex = NewTextures
    /\ occupancy = {}
    /\ gpu_alive = 0
    /\ cpu_alive = 0
    /\ ops = <<>>
    /\ n_ticks = 0
    /\ n_agent = 0
    /\ n_rd = 0
    /\ n_swap = 0
    /\ agent_src = "-"
    /\ rd_src = "-"
    /\ rd_dst = "-"
    /\ rd_src_tex = Undefined
    /\ rd_occ = {}
    /\ dl_src = "-"
    /\ dl_front = "-"
    /\ extinct = FALSE
    /\ ul_dst = "-"
    /\ ul_front = "-"
    /\ ul_tick = 0
    /\ LegacyIdle
    /\ StoresIdle
    /\ failure = "none"
    /\ StatsIdle
    /\ MetricsIdle
    /\ LogsIdle
    /\ ViewIdle
    /\ MappedIdle

\* seed_resources(seed): the warning on a coarse grid, then the samples; an
\* empty range makes gen_range panic
SeedSampling ==
    /\ driver = "seeding"
    /\ pc = "field_manager"
    /\ sample_spans' = seed_sample_spans(width, height)
    /\ IF \E i \in DOMAIN sample_spans' : gen_range_panics(sample_spans'[i])
         THEN pc' = "panicked" /\ failure' = "panic"
         ELSE /\ pc' = "seeded"
              /\ failure' = IF Min(width, height) < COARSE_MIN_DIM
                              THEN "warning" ELSE "none"
    /\ UNCHANGED <<cfgv, setup, parv, legv, seedv, newv, viewv, mapv, half_data,
                   step, current_step, use_a_as_src, front_is_a, cpu_alive, gpuv,
                   countv, obsv, ops, extinct>>

SpansNext == SeedSampling

SpecSpans == InitSpans /\ [][SpansNext]_vars

\* the span a percentage pair covers of a size, before the degenerate case
ComputedSpan(size, lo_pct, hi_pct) == <<size * lo_pct, size * hi_pct>>

\* what C34 says span_pct returns
ExpectedSpan(size, lo_pct, hi_pct) ==
    LET c == ComputedSpan(size, lo_pct, hi_pct)
    IN IF c[2] <= c[1] THEN <<50 * size - 100, 50 * size + 100>> ELSE c

SpecFair == InitLongRun /\ [][HeadlessNext]_vars /\ WF_vars(HeadlessNext)

\* the headless main has returned: Ok(()) after the loop, or an error
HeadlessEnded == pc \in {"done", "error", "config_error"}

RecreateStep ==
    /\ driver = "viewer"
    /\ pc = "idle"
    /\ pc' = "idle"
    /\ tex' = [g \in Grids |-> Undefined]
    /\ UNCHANGED <<current_step, occupancy, gpu_alive>>
    /\ viewv' = viewv

SuccessfulWrites == IF pc = "error" THEN n_writes - 1 ELSE n_writes

\* C37: step_count is the number of write_step calls that returned success; a
\* call that fails on the row or the flush leaves step_count as it was but has
\* already appended its sample to both histories, which count the failed call
C37_StepCountCountsSuccesses ==
    driver = "metrics" =>
      /\ step_count = SuccessfulWrites
      /\ Len(herbivore_history) = Min(n_writes, HISTORY_CAP)
      /\ Len(energy_history) = Min(n_writes, HISTORY_CAP)
      /\ n_writes > 0 =>
           /\ herbivore_history[Len(herbivore_history)] = samples[n_writes][1]
           /\ energy_history[Len(energy_history)] = samples[n_writes][2]

\* the third call failed: two rows counted, three samples in each history
C37_Witness ==
    /\ driver = "metrics"
    /\ pc = "error"
    /\ n_writes = 3
    /\ step_count = 2
    /\ Len(herbivore_history) = 3
    /\ Len(energy_history) = 3

\* C38: from_rgba16f rejects input whose length is not 4 times the number of
\* cells before any cell is modified: the field data is then unchanged; for
\* input of the right length every cell's R and W are channels 0 and 1 of
\* its texel, whatever channels 2 and 3 hold
C38_FromRgba16f ==
    (driver = "stores" /\ field_call = "from_rgba16f") =>
       IF Len(half_data) # 4 * NumCells
         THEN /\ pc = "panicked"
              /\ data = seed_args.before
         ELSE /\ pc = "stores"
              /\ \A i \in Cells : /\ data[i].R = half_data[4 * i + 1]
                                  /\ data[i].W = half_data[4 * i + 2]
                                  /\ DOMAIN data[i] = {"R", "W"}

\* a seeded grid was overwritten from texels of the right length whose unused
\* channels are not zero
C38_Witness ==
    /\ driver = "stores"
    /\ pc = "stores"
    /\ field_call = "from_rgba16f"
    /\ Len(half_data) = 4 * NumCells
    /\ \E i \in Cells : seed_args.before[i].R > 0 /\ seed_args.before[i] # data[i]
    /\ \E i \in Cells : half_data[4 * i + 3] # 0 /\ half_data[4 * i + 4] # 0

\* texels one short of the length were rejected on a grid that holds values
C38_WitnessRejected ==
    /\ driver = "stores"
    /\ pc = "panicked"
    /\ field_call = "from_rgba16f"
    /\ Len(half_data) = 4 * NumCells - 1
    /\ \E i \in Cells : data[i].R > 0
====
